---- MODULE Spec2Model ----
(***************************************************************************)
(* ClaudeQuant back-test core: Broker (src/backtest/broker.py), Position   *)
(* and Order/Trade records (src/core/types.py) and BacktestEngine          *)
(* (src/backtest/engine.py).                                               *)
(*                                                                         *)
(* Numbers.  Python floats are modelled as exact rationals (rounding of    *)
(* IEEE doubles is not modelled).  A rate r (commission_rate, stamp_tax)   *)
(* is the integer r * rate_den, the slippage s is the integer              *)
(* s * slip_den; both denominators are fields of the broker.  A plain      *)
(* price (order.price, fill_price, a bar's close) is an integer.  A price  *)
(* after slippage, and every price a Position holds, is kept in "slipped   *)
(* units": value * slip_den.  Money (cash, commission, min_commission,     *)
(* initial_capital) is kept in "money units": value * slip_den * rate_den. *)
(* With these units every product and sum of the code is an exact integer. *)
(***************************************************************************)
EXTENDS Integers, Sequences, FiniteSets, TLC

\* broker, engine: the Broker and the BacktestEngine; pos: a Position used on
\* its own; run: the activation of run; strategy: the strategy object handed
\* to run; result: the BacktestResult the caller holds; last, calls, twin,
\* built: history kept for the properties (the last call, the number of
\* calls or bars so far, a newly built engine run alongside, and the engine
\* as constructed).  shared: the orders and trades of the held result are
\* the list objects of the engine's present broker.
VARIABLES broker, last, pos, calls, engine, run, strategy, result, twin, built, shared

vars == <<broker, last, pos, calls, engine, run, strategy, result, twin, built, shared>>

\* ------------------------------------------------------------------ bounds
\* Largest number of orders submitted to one Broker in the Broker-level runs.
MaxOrders == 2
\* Largest |quantity| a Position used on its own is driven to, and the
\* largest number of calls made on it.
MaxHeld == 4
MaxCalls == 4
\* Largest number of bars one engine replays, over all its runs.
MaxBars == 2
\* Longest value series the metric functions are applied to on their own.
MaxLen == 4

\* ------------------------------------------------------------- arithmetic
Max(a, b) == IF a >= b THEN a ELSE b
Min(a, b) == IF a <= b THEN a ELSE b

\* value (a plain amount or price) expressed in money units of broker self
Money(self, value) == value * self.slip_den * self.rate_den
\* a plain price in slipped units
Slipped(self, price) == price * self.slip_den
\* an amount in slipped units (quantity * slipped price) in money units
AmountMoney(self, amount) == amount * self.rate_den

\* ---------------------------------------------------------------- records
\* Order(...) with the dataclass defaults; created_at/filled_at (wall clock)
\* and metadata are not modelled.
Order(order_id, symbol, side, quantity, price, status) ==
    [order_id |-> order_id, symbol |-> symbol, side |-> side,
     quantity |-> quantity, price |-> price, status |-> status,
     filled_quantity |-> 0, filled_price |-> 0, commission |-> 0]

\* Order.filled_amount, in slipped units
filled_amount(order) == order.filled_quantity * order.filled_price

Trade(trade_id, order_id, symbol, side, quantity, price, commission) ==
    [trade_id |-> trade_id, order_id |-> order_id, symbol |-> symbol,
     side |-> side, quantity |-> quantity, price |-> price,
     commission |-> commission]

\* "no order" / "no trade" (Python: nothing was created or returned)
NoOrder == Order(0, "", "", 0, 0, "NONE")
NoTrade == Trade(0, 0, "", "", 0, 0, 0)

\* --------------------------------------------------------------- Position
\* A float that a division produces (avg_cost, realized P&L) is an exact
\* fraction <<numerator, denominator>> in lowest terms, denominator > 0.
RECURSIVE GCD(_, _)
GCD(a, b) == IF b = 0 THEN (IF a < 0 THEN -a ELSE a) ELSE GCD(b, a % b)

Frac(n, d) ==
    LET g == GCD(IF n < 0 THEN -n ELSE n, d)
    IN  IF g = 0 THEN <<0, 1>> ELSE <<n \div g, d \div g>>

\* Position(symbol, quantity, avg_cost, current_price); last_updated (wall
\* clock) is not modelled.
Position(symbol, quantity, avg_cost, current_price) ==
    [symbol |-> symbol, quantity |-> quantity, avg_cost |-> avg_cost,
     current_price |-> current_price]

\* Position.market_value
market_value(self) == self.quantity * self.current_price

\* Position.cost_basis, a fraction
cost_basis(self) == Frac(self.quantity * self.avg_cost[1], self.avg_cost[2])

\* Position.update_price
update_price(self, price) == [self EXCEPT !.current_price = price]

\* Mutant of add: the average cost is overwritten by the price of this lot.
AddOverwritesAvgCost(self, quantity, price) ==
    [self EXCEPT !.quantity = self.quantity + quantity,
                 !.avg_cost = IF self.quantity + quantity > 0 THEN <<price, 1>> ELSE <<0, 1>>]

\* Position.add
add(self, quantity, price) ==
    LET cb == cost_basis(self)
        total_cost == Frac(cb[1] + quantity * price * cb[2], cb[2])
        new_quantity == self.quantity + quantity
    IN  [self EXCEPT !.quantity = new_quantity,
                     !.avg_cost = IF new_quantity > 0
                                  THEN Frac(total_cost[1], total_cost[2] * new_quantity)
                                  ELSE <<0, 1>>]

\* Mutant of reduce: the guard against selling more than is held is missing.
ReduceNoGuard(self, quantity) ==
    [raised |-> "none",
     self |-> [self EXCEPT !.quantity = self.quantity - quantity],
     value |-> Frac(quantity * (self.current_price * self.avg_cost[2] - self.avg_cost[1]),
                    self.avg_cost[2])]

\* Mutant of reduce: selling the whole holding also clears its average cost.
ReduceClearsAvgCost(self, quantity) ==
    IF quantity > self.quantity
    THEN [raised |-> "ValueError", self |-> self, value |-> <<0, 1>>]
    ELSE [raised |-> "none",
          self |-> [self EXCEPT !.quantity = self.quantity - quantity,
                                !.avg_cost = IF self.quantity = quantity THEN <<0, 1>> ELSE @],
          value |-> Frac(quantity * (self.current_price * self.avg_cost[2] - self.avg_cost[1]),
                         self.avg_cost[2])]

\* Position.reduce.  Result: the exception raised, the position afterwards and
\* the realized P&L returned.
reduce(self, quantity) ==
    IF quantity > self.quantity
    THEN [raised |-> "ValueError", self |-> self, value |-> <<0, 1>>]
    ELSE [raised |-> "none",
          self |-> [self EXCEPT !.quantity = self.quantity - quantity],
          value |-> Frac(quantity * (self.current_price * self.avg_cost[2] - self.avg_cost[1]),
                         self.avg_cost[2])]

\* ----------------------------------------------------------------- Broker
\* Broker.__init__: cfg carries the constructor arguments and the units.
Broker(cfg) ==
    [initial_capital |-> cfg.initial_capital * cfg.slip_den * cfg.rate_den,
     cash            |-> cfg.initial_capital * cfg.slip_den * cfg.rate_den,
     commission_rate |-> cfg.commission_rate,
     min_commission  |-> cfg.min_commission * cfg.slip_den * cfg.rate_den,
     stamp_tax       |-> cfg.stamp_tax,
     slippage        |-> cfg.slippage,
     rate_den        |-> cfg.rate_den,
     slip_den        |-> cfg.slip_den,
     orders          |-> <<>>,
     trades          |-> <<>>]

\* Mutants of _calculate_commission.
CommissionNoMinimum(self, quantity, price, side) ==
    quantity * price * self.commission_rate

\* Broker._calculate_commission; price in slipped units, result in money units
_calculate_commission(self, quantity, price, side) ==
    LET amount == quantity * price
        commission == amount * self.commission_rate
    IN  Max(commission, self.min_commission)

\* Broker._calculate_buy_cost; price is the plain order price
_calculate_buy_cost(self, quantity, price) ==
    LET amount == quantity * Slipped(self, price)
        commission == _calculate_commission(self, quantity, Slipped(self, price), "BUY")
    IN  AmountMoney(self, amount) + commission

\* uuid-based identifiers are modelled by the position in the history: the
\* only property of an id the program relies on is that it is fresh.
_generate_order_id(self) == Len(self.orders) + 1
_generate_trade_id(self) == Len(self.trades) + 1

\* Mutant of submit_order: the funds check compares against nothing.
SubmitNoFundsCheck(self, symbol, side, quantity, price) ==
    IF quantity <= 0 \/ price <= 0
    THEN [raised |-> "InvalidOrderError", self |-> self, order |-> NoOrder]
    ELSE LET order == Order(_generate_order_id(self), symbol, side, quantity, price, "PENDING")
         IN  [raised |-> "none",
              self |-> [self EXCEPT !.orders = Append(@, order)],
              order |-> order]

\* Mutant of submit_order: validation of quantity and price is skipped.
SubmitNoValidation(self, symbol, side, quantity, price) ==
    LET order == Order(_generate_order_id(self), symbol, side, quantity, price, "PENDING")
    IN  IF side = "BUY" /\ _calculate_buy_cost(self, quantity, price) > self.cash
        THEN [raised |-> "InsufficientFundsError", self |-> self,
              order |-> [order EXCEPT !.status = "REJECTED"]]
        ELSE [raised |-> "none",
              self |-> [self EXCEPT !.orders = Append(@, order)],
              order |-> order]

\* Mutant of submit_order: an accepted BUY reserves its cost at once.
SubmitReservesCash(self, symbol, side, quantity, price) ==
    IF quantity <= 0 \/ price <= 0
    THEN [raised |-> "InvalidOrderError", self |-> self, order |-> NoOrder]
    ELSE LET order == Order(_generate_order_id(self), symbol, side, quantity, price, "PENDING")
             total_cost == _calculate_buy_cost(self, quantity, price)
         IN  IF side = "BUY" /\ total_cost > self.cash
             THEN [raised |-> "InsufficientFundsError", self |-> self,
                   order |-> [order EXCEPT !.status = "REJECTED"]]
             ELSE [raised |-> "none",
                   self |-> [self EXCEPT !.orders = Append(@, order),
                                         !.cash = IF side = "BUY" THEN @ - total_cost ELSE @],
                   order |-> order]

\* Mutant of submit_order: the rejected order is appended to the history
\* before InsufficientFundsError is raised.
SubmitRecordsRejected(self, symbol, side, quantity, price) ==
    IF quantity <= 0 \/ price <= 0
    THEN [raised |-> "InvalidOrderError", self |-> self, order |-> NoOrder]
    ELSE LET order == Order(_generate_order_id(self), symbol, side, quantity, price, "PENDING")
         IN  IF side = "BUY" /\ _calculate_buy_cost(self, quantity, price) > self.cash
             THEN [raised |-> "InsufficientFundsError",
                   self |-> [self EXCEPT !.orders =
                                Append(@, [order EXCEPT !.status = "REJECTED"])],
                   order |-> [order EXCEPT !.status = "REJECTED"]]
             ELSE [raised |-> "none",
                   self |-> [self EXCEPT !.orders = Append(@, order)],
                   order |-> order]

\* Broker.submit_order.  Result: the exception raised ("none" if it returns),
\* the broker afterwards, and the Order object the call created (NoOrder if
\* it raised before creating one).
submit_order(self, symbol, side, quantity, price) ==
    IF quantity <= 0
    THEN [raised |-> "InvalidOrderError", self |-> self, order |-> NoOrder]
    ELSE IF price <= 0
    THEN [raised |-> "InvalidOrderError", self |-> self, order |-> NoOrder]
    ELSE LET order == Order(_generate_order_id(self), symbol, side, quantity, price, "PENDING")
         IN  IF side = "BUY" /\ _calculate_buy_cost(self, quantity, price) > self.cash
             THEN [raised |-> "InsufficientFundsError", self |-> self,
                   order |-> [order EXCEPT !.status = "REJECTED"]]
             ELSE [raised |-> "none",
                   self |-> [self EXCEPT !.orders = Append(@, order)],
                   order |-> order]

\* Mutant of fill_order: the status guard is missing.
FillNoStatusGuard(self, order, fill_price) ==
    LET fp == IF fill_price = <<>> THEN order.price ELSE fill_price[1]
        actual_price == IF order.side = "BUY"
                        THEN fp * (self.slip_den + self.slippage)
                        ELSE fp * (self.slip_den - self.slippage)
        commission == _calculate_commission(self, order.quantity, actual_price, order.side)
        filled == [order EXCEPT !.filled_quantity = order.quantity,
                                !.filled_price = actual_price,
                                !.commission = commission,
                                !.status = "FILLED"]
        cash == IF order.side = "BUY"
                THEN self.cash - (AmountMoney(self, filled_amount(filled)) + commission)
                ELSE self.cash + (AmountMoney(self, filled_amount(filled)) - commission
                                  - filled_amount(filled) * self.stamp_tax)
        trade == Trade(_generate_trade_id(self), filled.order_id, filled.symbol,
                       filled.side, filled.filled_quantity, actual_price, commission)
    IN  [raised |-> "none",
         self |-> [self EXCEPT !.cash = cash, !.trades = Append(@, trade)],
         order |-> filled, trade |-> trade]

\* Mutant of fill_order: stamp tax is never charged.
FillNoStampTax(self, order, fill_price) ==
    IF order.status # "PENDING"
    THEN [raised |-> "InvalidOrderError", self |-> self, order |-> order, trade |-> NoTrade]
    ELSE LET r == FillNoStatusGuard(self, order, fill_price)
         IN  IF order.side = "SELL"
             THEN [r EXCEPT !.self.cash = @ + filled_amount(r.order) * self.stamp_tax]
             ELSE r

\* Mutant of fill_order: a BUY whose total cost at the fill price exceeds the
\* cash is refused with InsufficientFundsError, and the order stays as it was.
FillChecksFunds(self, order, fill_price) ==
    LET r == FillNoStampTax(self, order, fill_price)
        f == IF r.raised = "none" /\ order.side = "SELL"
             THEN [r EXCEPT !.self.cash = @ - filled_amount(r.order) * self.stamp_tax]
             ELSE r
    IN  IF f.raised = "none" /\ f.self.cash < 0
        THEN [raised |-> "InsufficientFundsError", self |-> self, order |-> order,
              trade |-> NoTrade]
        ELSE f

\* Broker.fill_order.  fill_price is <<>> (None) or <<p>>.  Result: the
\* exception raised, the broker afterwards, the Order object afterwards (the
\* caller's object is mutated in place) and the Trade returned.
fill_order(self, order, fill_price) ==
    IF order.status # "PENDING"
    THEN [raised |-> "InvalidOrderError", self |-> self, order |-> order, trade |-> NoTrade]
    ELSE LET fp == IF fill_price = <<>> THEN order.price ELSE fill_price[1]
             actual_price == IF order.side = "BUY"
                             THEN fp * (self.slip_den + self.slippage)
                             ELSE fp * (self.slip_den - self.slippage)
             commission == _calculate_commission(self, order.quantity, actual_price, order.side)
             filled == [order EXCEPT !.filled_quantity = order.quantity,
                                     !.filled_price = actual_price,
                                     !.commission = commission,
                                     !.status = "FILLED"]
             cash == IF order.side = "BUY"
                     THEN self.cash - (AmountMoney(self, filled_amount(filled)) + commission)
                     ELSE self.cash + (AmountMoney(self, filled_amount(filled)) - commission
                                       - filled_amount(filled) * self.stamp_tax)
             trade == Trade(_generate_trade_id(self), filled.order_id, filled.symbol,
                            filled.side, filled.filled_quantity, actual_price, commission)
         IN  [raised |-> "none",
              self |-> [self EXCEPT !.cash = cash, !.trades = Append(@, trade)],
              order |-> filled, trade |-> trade]

\* Broker.get_cash.  Result: the broker afterwards and the value returned.
get_cash(self) == [self |-> self, value |-> self.cash]

\* sum(trade.commission for trade in trades)
RECURSIVE SumCommission(_)
SumCommission(trades) ==
    IF Len(trades) = 0 THEN 0
    ELSE trades[1].commission + SumCommission(Tail(trades))

\* Broker.get_total_commission
get_total_commission(self) == [self |-> self, value |-> SumCommission(self.trades)]

\* Broker.get_trade_count
get_trade_count(self) == [self |-> self, value |-> Len(self.trades)]

\* --------------------------------------------------------- BacktestEngine
\* DEFAULT_STAMP_TAX = 0.001 as a rate over rate_den
DEFAULT_STAMP_TAX(rate_den) == rate_den \div 1000

\* Python's  a or b  on numbers: None and 0 are both falsy (None is modelled
\* as 0).
Or(a, b) == IF a = 0 THEN b ELSE a

\* Signal(action, symbol, price, quantity); timestamp, reason, confidence and
\* metadata are not read by the engine.
Signal(action, symbol, price, quantity) ==
    [action |-> action, symbol |-> symbol, price |-> price, quantity |-> quantity]

\* strategy.next returned None
NoSignal == Signal("None", "", 0, 0)

\* BacktestEngine.__init__: args are the constructor arguments, config the
\* values the global Config returns; the Broker it creates is returned with it.
BacktestEngine(args, config) ==
    LET initial_capital == Or(args.initial_capital, config.initial_capital)
        commission_rate == Or(args.commission_rate, config.commission_rate)
        min_commission == Or(args.min_commission, config.min_commission)
        slippage == Or(args.slippage, config.slippage)
    IN  [self |-> [initial_capital |-> initial_capital,
                   commission_rate |-> commission_rate,
                   min_commission |-> min_commission,
                   slippage |-> slippage,
                   rate_den |-> config.rate_den,
                   slip_den |-> config.slip_den,
                   positions |-> <<>>,
                   portfolio_values |-> <<>>,
                   dates |-> <<>>],
         broker |-> Broker([initial_capital |-> initial_capital,
                            commission_rate |-> commission_rate,
                            min_commission |-> min_commission,
                            stamp_tax |-> DEFAULT_STAMP_TAX(config.rate_den),
                            slippage |-> slippage,
                            rate_den |-> config.rate_den,
                            slip_den |-> config.slip_den])]

\* quantity held for symbol (0 when the position map has no entry)
Held(positions, symbol) ==
    IF symbol \in DOMAIN positions THEN positions[symbol].quantity ELSE 0

\* positions with positions[symbol] set to position (dict assignment)
SetPosition(positions, symbol, position) ==
    [s \in DOMAIN positions \cup {symbol} |->
        IF s = symbol THEN position ELSE positions[s]]

\* what _process_signal leaves when it does nothing
Dropped(self, brk) ==
    [raised |-> "none", caught |-> "none", self |-> self, broker |-> brk,
     order |-> NoOrder, trade |-> NoTrade]

\* Mutant of ProcessBuy: the order is filled at its own price (signal.price)
\* instead of the bar's close.
ProcessBuyFillAtSignalPrice(self, brk, signal, bar) ==
    LET symbol == signal.symbol
        s == submit_order(brk, symbol, "BUY", signal.quantity, signal.price)
    IN  IF s.raised # "none"
        THEN [Dropped(self, s.self) EXCEPT !.caught = s.raised, !.order = s.order]
        ELSE LET f == fill_order(s.self, s.order, <<>>)
                 b == [f.self EXCEPT !.orders[Len(f.self.orders)] = f.order]
                 positions1 ==
                     IF symbol \notin DOMAIN self.positions
                     THEN SetPosition(self.positions, symbol,
                              Position(symbol, 0, <<0, 1>>, Slipped(brk, bar.close)))
                     ELSE self.positions
                 positions2 ==
                     [positions1 EXCEPT ![symbol] = add(@, f.trade.quantity, f.trade.price)]
             IN  IF f.raised # "none"
                 THEN [Dropped(self, b) EXCEPT !.caught = f.raised, !.order = f.order]
                 ELSE [raised |-> "none", caught |-> "none",
                       self |-> [self EXCEPT !.positions = positions2],
                       broker |-> b, order |-> f.order, trade |-> f.trade]

\* _process_signal, the BUY branch (the try block and its except clause)
ProcessBuy(self, brk, signal, bar) ==
    LET symbol == signal.symbol
        s == submit_order(brk, symbol, "BUY", signal.quantity, signal.price)
    IN  IF s.raised # "none"
        THEN [Dropped(self, s.self) EXCEPT !.caught = s.raised, !.order = s.order]
        ELSE LET f == fill_order(s.self, s.order, <<bar.close>>)
                 b == [f.self EXCEPT !.orders[Len(f.self.orders)] = f.order]
                 positions1 ==
                     IF symbol \notin DOMAIN self.positions
                     THEN SetPosition(self.positions, symbol,
                              Position(symbol, 0, <<0, 1>>, Slipped(brk, bar.close)))
                     ELSE self.positions
                 positions2 ==
                     [positions1 EXCEPT ![symbol] = add(@, f.trade.quantity, f.trade.price)]
             IN  IF f.raised # "none"
                 THEN [Dropped(self, b) EXCEPT !.caught = f.raised, !.order = f.order]
                 ELSE [raised |-> "none", caught |-> "none",
                       self |-> [self EXCEPT !.positions = positions2],
                       broker |-> b, order |-> f.order, trade |-> f.trade]

\* _process_signal, the SELL branch from the submission on (the try block and
\* its except clause), for the sell quantity decided before it
ProcessSell(self, brk, signal, bar, sell_quantity) ==
    LET symbol == signal.symbol
        s == submit_order(brk, symbol, "SELL", sell_quantity, signal.price)
    IN  IF s.raised # "none"
        THEN [Dropped(self, s.self) EXCEPT !.caught = s.raised, !.order = s.order]
        ELSE LET f == fill_order(s.self, s.order, <<bar.close>>)
                 b == [f.self EXCEPT !.orders[Len(f.self.orders)] = f.order]
                 r == reduce(self.positions[symbol], f.trade.quantity)
             IN  IF f.raised # "none"
                 THEN [Dropped(self, b) EXCEPT !.caught = f.raised, !.order = f.order]
                 ELSE IF r.raised # "none"
                 THEN [Dropped(self, b) EXCEPT !.caught = r.raised, !.order = f.order,
                                               !.trade = f.trade]
                 ELSE [raised |-> "none", caught |-> "none",
                       self |-> [self EXCEPT !.positions[symbol] = r.self],
                       broker |-> b, order |-> f.order, trade |-> f.trade]

\* Mutant of _process_signal: the sell quantity is not clamped to the holding.
ProcessSignalNoClamp(self, brk, signal, bar) ==
    IF signal.action = "BUY"
    THEN ProcessBuy(self, brk, signal, bar)
    ELSE IF signal.action = "SELL"
    THEN IF signal.symbol \notin DOMAIN self.positions
         THEN Dropped(self, brk)
         ELSE IF self.positions[signal.symbol].quantity = 0
         THEN Dropped(self, brk)
         ELSE ProcessSell(self, brk, signal, bar, signal.quantity)
    ELSE Dropped(self, brk)

\* Mutant of _process_signal: there is no try block, so what submit_order or
\* fill_order raises leaves _process_signal.
ProcessSignalNoTry(self, brk, signal, bar) ==
    LET r == IF signal.action = "BUY"
             THEN ProcessBuy(self, brk, signal, bar)
             ELSE IF signal.action = "SELL"
             THEN IF signal.symbol \notin DOMAIN self.positions
                  THEN Dropped(self, brk)
                  ELSE IF self.positions[signal.symbol].quantity = 0
                  THEN Dropped(self, brk)
                  ELSE ProcessSell(self, brk, signal, bar,
                           Min(signal.quantity, self.positions[signal.symbol].quantity))
             ELSE Dropped(self, brk)
    IN  [r EXCEPT !.raised = r.caught, !.caught = "none"]

\* Mutant of _process_signal: the SELL branch does not test whether the
\* symbol is in the position map, so the lookup raises KeyError.
ProcessSignalNoHeldCheck(self, brk, signal, bar) ==
    IF signal.action = "BUY"
    THEN ProcessBuy(self, brk, signal, bar)
    ELSE IF signal.action = "SELL"
    THEN IF signal.symbol \notin DOMAIN self.positions
         THEN [Dropped(self, brk) EXCEPT !.raised = "KeyError"]
         ELSE IF self.positions[signal.symbol].quantity = 0
         THEN Dropped(self, brk)
         ELSE ProcessSell(self, brk, signal, bar,
                          Min(signal.quantity, self.positions[signal.symbol].quantity))
    ELSE Dropped(self, brk)

\* BacktestEngine._process_signal.  Result: the exception that leaves it
\* (raised: always "none", both branches catch Exception), the exception the
\* try block caught ("none" if none), the engine and broker afterwards, and
\* the Order and Trade created (NoOrder/NoTrade if none).
_process_signal(self, brk, signal, bar) ==
    IF signal.action = "BUY"
    THEN ProcessBuy(self, brk, signal, bar)
    ELSE IF signal.action = "SELL"
    THEN IF signal.symbol \notin DOMAIN self.positions
         THEN Dropped(self, brk)
         ELSE IF self.positions[signal.symbol].quantity = 0
         THEN Dropped(self, brk)
         ELSE ProcessSell(self, brk, signal, bar,
                          Min(signal.quantity, self.positions[signal.symbol].quantity))
    ELSE Dropped(self, brk)

\* sum of pos.market_value over the position map, in slipped units
RECURSIVE SumMarketValue(_, _)
SumMarketValue(positions, symbols) ==
    IF symbols = {} THEN 0
    ELSE LET s == CHOOSE x \in symbols : TRUE
         IN  market_value(positions[s]) + SumMarketValue(positions, symbols \ {s})

\* Mutant of _calculate_portfolio_value: the holdings are left out.
PortfolioValueCashOnly(self, brk, current_price) ==
    brk.cash

\* BacktestEngine._calculate_portfolio_value, in money units (its
\* current_price argument is not used by the code)
_calculate_portfolio_value(self, brk, current_price) ==
    LET cash == brk.cash
        holdings_value == SumMarketValue(self.positions, DOMAIN self.positions)
    IN  cash + AmountMoney(brk, holdings_value)

\* Mutant of reset: the new Broker is built without the engine's slippage.
ResetForgetsSlippage(self) ==
    [self |-> [self EXCEPT !.positions = <<>>, !.portfolio_values = <<>>, !.dates = <<>>],
     broker |-> Broker([initial_capital |-> self.initial_capital,
                        commission_rate |-> self.commission_rate,
                        min_commission |-> self.min_commission,
                        stamp_tax |-> DEFAULT_STAMP_TAX(self.rate_den),
                        slippage |-> 0,
                        rate_den |-> self.rate_den,
                        slip_den |-> self.slip_den])]

\* Mutant of reset: the position map is kept.
ResetKeepsPositions(self) ==
    [self |-> [self EXCEPT !.portfolio_values = <<>>, !.dates = <<>>],
     broker |-> Broker([initial_capital |-> self.initial_capital,
                        commission_rate |-> self.commission_rate,
                        min_commission |-> self.min_commission,
                        stamp_tax |-> DEFAULT_STAMP_TAX(self.rate_den),
                        slippage |-> self.slippage,
                        rate_den |-> self.rate_den,
                        slip_den |-> self.slip_den])]

\* BacktestEngine.reset: a new Broker from the engine's stored settings
reset(self) ==
    [self |-> [self EXCEPT !.positions = <<>>, !.portfolio_values = <<>>, !.dates = <<>>],
     broker |-> Broker([initial_capital |-> self.initial_capital,
                        commission_rate |-> self.commission_rate,
                        min_commission |-> self.min_commission,
                        stamp_tax |-> DEFAULT_STAMP_TAX(self.rate_den),
                        slippage |-> self.slippage,
                        rate_den |-> self.rate_den,
                        slip_den |-> self.slip_den])]

\* ------------------------------------------------------------------ floats
Abs(a) == IF a < 0 THEN -a ELSE a

\* the float n / d as a fraction in lowest terms with a positive denominator;
\* a division by zero gives <<1, 0>> (inf), <<-1, 0>> (-inf) or <<0, 0>> (NaN)
Ratio(n, d) ==
    IF d = 0
    THEN <<IF n > 0 THEN 1 ELSE IF n < 0 THEN -1 ELSE 0, 0>>
    ELSE LET g == GCD(Abs(n), Abs(d))
         IN  IF d < 0 THEN <<(0 - n) \div g, (0 - d) \div g>> ELSE <<n \div g, d \div g>>

\* pct_change() without the fillna(0): the first entry stays NaN
PctChangeNoFillna(values) ==
    [i \in 1..Len(values) |->
        IF i = 1 THEN <<0, 0>>
        ELSE Ratio(values[i] - values[i - 1], values[i - 1])]

\* portfolio_series.pct_change().fillna(0): the first entry and every NaN
\* become 0
pct_change_fillna(values) ==
    [i \in 1..Len(values) |->
        IF i = 1 THEN <<0, 1>>
        ELSE LET r == Ratio(values[i] - values[i - 1], values[i - 1])
             IN  IF r = <<0, 0>> THEN <<0, 1>> ELSE r]

\* ------------------------------------------------------ MetricsCalculator
\* A float is a fraction <<n, d>> as Ratio gives it where the metric is a
\* rational function of the series (total_return, max_drawdown).  Where it
\* is not (a power, a standard deviation) the float is kept as its class:
\* "nan", "inf", "-inf", "zero", "pos" or "neg", computed in exact
\* arithmetic, or "finite" for a finite float of any sign.
TRADING_DAYS_PER_YEAR == 252

FloatClass(f) ==
    IF f[2] = 0
    THEN IF f[1] = 0 THEN "nan" ELSE IF f[1] > 0 THEN "inf" ELSE "-inf"
    ELSE IF f[1] = 0 THEN "zero" ELSE IF f[1] > 0 THEN "pos" ELSE "neg"

\* the class of -x
ClassNeg(c) ==
    CASE c = "pos" -> "neg"
      [] c = "neg" -> "pos"
      [] c = "inf" -> "-inf"
      [] c = "-inf" -> "inf"
      [] OTHER -> c

\* the class of the float x / y from the classes of x and y, for y # 0 (the
\* code returns before it would divide by 0)
ClassQuotient(x, y) ==
    CASE x = "nan" \/ y = "nan" -> "nan"
      [] x # "nan" /\ y \in {"inf", "-inf"} -> IF x \in {"inf", "-inf"} THEN "nan" ELSE "zero"
      [] x # "nan" /\ y = "pos" -> x
      [] x # "nan" /\ y = "neg" -> ClassNeg(x)

\* a / b < c / d for b > 0 and d > 0, by whole parts and then the inverted
\* remainders, so that no product leaves the integer range
RECURSIVE QuotientLess(_, _, _, _)
QuotientLess(a, b, c, d) ==
    IF a \div b # c \div d THEN a \div b < c \div d
    ELSE IF c % d = 0 THEN FALSE
    ELSE IF a % b = 0 THEN TRUE
    ELSE QuotientLess(d, c % d, b, a % b)

\* a < b for two floats that are not NaN
FracLess(a, b) ==
    IF a[2] = 0 /\ b[2] = 0 THEN a[1] < b[1]
    ELSE IF a[2] = 0 THEN a[1] < 0
    ELSE IF b[2] = 0 THEN b[1] > 0
    ELSE QuotientLess(a[1], a[2], b[1], b[2])

\* abs(a)
FracAbs(a) == <<Abs(a[1]), a[2]>>

\* MetricsCalculator.total_return without the initial == 0 guard
TotalReturnNoZeroGuard(portfolio_values) ==
    IF Len(portfolio_values) = 0 THEN <<0, 1>>
    ELSE LET initial == portfolio_values[1]
             final == portfolio_values[Len(portfolio_values)]
         IN  Ratio(final - initial, initial)

\* MetricsCalculator.total_return
total_return(portfolio_values) ==
    IF Len(portfolio_values) = 0 THEN <<0, 1>>
    ELSE LET initial == portfolio_values[1]
             final == portfolio_values[Len(portfolio_values)]
         IN  IF initial = 0 THEN <<0, 1>> ELSE Ratio(final - initial, initial)

\* MetricsCalculator.annual_return: the class of
\* (1 + total_ret) ** (TRADING_DAYS_PER_YEAR / days) - 1.  A negative base
\* with a fractional exponent is NaN; a power of a base above 1 stays finite
\* for the series explored here.
annual_return(portfolio_values) ==
    IF Len(portfolio_values) = 0 THEN "zero"
    ELSE LET total_ret == total_return(portfolio_values)
             days == Len(portfolio_values)
             base == Ratio(total_ret[2] + total_ret[1], total_ret[2])
             growth == FloatClass(<<Abs(base[1]) - base[2], base[2]>>)
         IN  IF base[1] > 0 THEN growth
             ELSE IF base[1] = 0 THEN "neg"
             ELSE IF TRADING_DAYS_PER_YEAR % days # 0 THEN "nan"
             ELSE IF (TRADING_DAYS_PER_YEAR \div days) % 2 = 1 THEN "neg"
             ELSE growth

\* the class of returns.std() (sample standard deviation, ddof = 1): NaN for
\* fewer than two entries or an infinite entry, 0 when all entries are equal
SeriesStd(s) ==
    IF Len(s) < 2 THEN "nan"
    ELSE IF \E i \in 1..Len(s) : s[i][2] = 0 THEN "nan"
    ELSE IF \A i \in 1..Len(s) : s[i] = s[1] THEN "zero"
    ELSE "pos"

\* the class of mean_return - daily_rf, daily_rf = risk_free_rate / 252:
\* infinite or NaN when the series has infinite entries, else a finite float
\* whose sign is not followed
ExcessReturn(s) ==
    LET up == \E i \in 1..Len(s) : s[i] = <<1, 0>>
        down == \E i \in 1..Len(s) : s[i] = <<-1, 0>>
    IN  IF up /\ down THEN "nan"
        ELSE IF up THEN "inf"
        ELSE IF down THEN "-inf"
        ELSE "finite"

\* MetricsCalculator.volatility (annualized): std * sqrt(252)
volatility(returns) ==
    IF Len(returns) = 0 THEN "zero" ELSE SeriesStd(returns)

\* portfolio_values.cummax() at position i
RECURSIVE CumMaxAt(_, _)
CumMaxAt(values, i) ==
    IF i = 1 THEN values[1] ELSE Max(CumMaxAt(values, i - 1), values[i])

\* (portfolio_values - cummax) / cummax
DrawdownSeries(values) ==
    [i \in 1..Len(values) |->
        Ratio(values[i] - CumMaxAt(values, i), CumMaxAt(values, i))]

\* drawdown.min(): the least entry that is not NaN, NaN when there is none
SeriesMin(s) ==
    LET numbers == {i \in 1..Len(s) : s[i] # <<0, 0>>}
    IN  IF numbers = {} THEN <<0, 0>>
        ELSE s[CHOOSE i \in numbers : \A j \in numbers : ~FracLess(s[j], s[i])]

\* MetricsCalculator.max_drawdown
max_drawdown(portfolio_values) ==
    IF Len(portfolio_values) = 0 THEN <<0, 1>>
    ELSE FracAbs(SeriesMin(DrawdownSeries(portfolio_values)))

\* MetricsCalculator.sharpe_ratio
sharpe_ratio(returns) ==
    IF Len(returns) = 0 THEN "zero"
    ELSE LET std_return == SeriesStd(returns)
         IN  IF std_return = "zero" THEN "zero"
             ELSE ClassQuotient(ExcessReturn(returns), std_return)

\* MetricsCalculator.sortino_ratio
sortino_ratio(returns) ==
    IF Len(returns) = 0 THEN "zero"
    ELSE LET downside_returns == SelectSeq(returns, LAMBDA r : r[1] < 0)
             downside_std == SeriesStd(downside_returns)
         IN  IF Len(downside_returns) = 0 THEN "zero"
             ELSE IF downside_std = "zero" THEN "zero"
             ELSE ClassQuotient(ExcessReturn(returns), downside_std)

\* MetricsCalculator.calmar_ratio
calmar_ratio(portfolio_values) ==
    LET annual_ret == annual_return(portfolio_values)
        max_dd == FloatClass(max_drawdown(portfolio_values))
    IN  IF max_dd = "zero" THEN "zero" ELSE ClassQuotient(annual_ret, max_dd)

\* MetricsCalculator.calculate_all
calculate_all(portfolio_values, returns) ==
    [total_return |-> total_return(portfolio_values),
     annual_return |-> annual_return(portfolio_values),
     volatility |-> volatility(returns),
     max_drawdown |-> max_drawdown(portfolio_values),
     sharpe_ratio |-> sharpe_ratio(returns),
     sortino_ratio |-> sortino_ratio(returns),
     calmar_ratio |-> calmar_ratio(portfolio_values),
     trading_days |-> Len(portfolio_values)]

\* ---------------------------------------------------------- BacktestResult
\* BacktestResult(...): strategy_name and the date strings are not modelled;
\* dates is the index of the portfolio_values and returns series.  Money is
\* in money units.  orders and trades hold what the broker's lists hold when
\* the result is built.
BacktestResult(symbol, initial_capital, final_capital, portfolio_values, dates, returns, orders, trades, metrics) ==
    [symbol |-> symbol, initial_capital |-> initial_capital,
     final_capital |-> final_capital, portfolio_values |-> portfolio_values,
     dates |-> dates, returns |-> returns, orders |-> orders, trades |-> trades,
     metrics |-> metrics]

\* BacktestResult.total_return (the property): a float division, which
\* raises ZeroDivisionError for initial_capital 0
BacktestResult_total_return(res) ==
    IF res.initial_capital = 0
    THEN [raised |-> "ZeroDivisionError", value |-> <<0, 1>>]
    ELSE [raised |-> "none",
          value |-> Ratio(res.final_capital - res.initial_capital, res.initial_capital)]

\* no BacktestResult is held
NoResult ==
    BacktestResult("", 0, 0, <<>>, <<>>, <<>>, <<>>, <<>>, calculate_all(<<>>, <<>>))

\* BacktestEngine._generate_result
_generate_result(self, brk, symbol) ==
    LET portfolio_series == self.portfolio_values
        returns == pct_change_fillna(portfolio_series)
        metrics == calculate_all(portfolio_series, returns)
    IN  BacktestResult(symbol,
                       Money(brk, self.initial_capital),
                       IF Len(portfolio_series) > 0
                       THEN portfolio_series[Len(portfolio_series)]
                       ELSE Money(brk, self.initial_capital),
                       portfolio_series, self.dates, returns,
                       brk.orders, brk.trades, metrics)

\* ------------------------------------------------------------------- run
\* The strategy object handed to run, before run touches it.  init_calls and
\* next_bars record the calls run makes on it: how often init was called and
\* the dates of the bars passed to next, in call order.
Strategy ==
    [current_position |-> 0, current_index |-> 0, init_calls |-> 0, next_bars |-> <<>>]

\* BaseStrategy.on_order_filled, the callback that keeps current_position.
\* No step of run invokes it.
on_order_filled(strategy0, order) ==
    [strategy0 EXCEPT !.current_position =
        IF order.side = "BUY" THEN @ + order.filled_quantity
        ELSE IF order.side = "SELL" THEN @ - order.filled_quantity
        ELSE @]

\* the activation of BacktestEngine.run: where it stands (pc), its symbol
\* argument, len(data), the loop index, the current bar and the signal that
\* strategy.next returned
Run(pc, symbol, n, idx, bar, signal) ==
    [pc |-> pc, symbol |-> symbol, n |-> n, idx |-> idx, bar |-> bar, signal |-> signal]

NoBar == [date |-> 0, close |-> 0]
NoRun == Run("idle", "", 0, 0, NoBar, NoSignal)

\* Mutant of EnterRun: the test for an empty data frame is missing.
EnterRunNoEmptyCheck(strategy0, symbol, n) ==
    [raised |-> "none",
     strategy |-> [strategy0 EXCEPT !.init_calls = @ + 1],
     run |-> Run(IF n = 0 THEN "result" ELSE "mark", symbol, n, 0, NoBar, NoSignal)]

\* run up to its loop, for data of n bars: the test for an empty data frame
\* and strategy.init(data)
EnterRun(strategy0, symbol, n) ==
    IF n = 0
    THEN [raised |-> "BacktestError", strategy |-> strategy0, run |-> NoRun]
    ELSE [raised |-> "none",
          strategy |-> [strategy0 EXCEPT !.init_calls = @ + 1],
          run |-> Run("mark", symbol, n, 0, NoBar, NoSignal)]

\* loop body: the position of run's symbol, if any, is marked to the close
MarkBar(self, brk, symbol, bar) ==
    IF symbol \in DOMAIN self.positions
    THEN [self EXCEPT !.positions[symbol] = update_price(@, Slipped(brk, bar.close))]
    ELSE self

\* loop body: the bar's portfolio value and date are appended
RecordBar(self, brk, bar) ==
    LET portfolio_value == _calculate_portfolio_value(self, brk, bar.close)
    IN  [self EXCEPT !.portfolio_values = Append(@, portfolio_value),
                     !.dates = Append(@, bar.date)]

\* Mutant of LoopNext: the loop stops one bar early.
LoopEndsEarly(r) ==
    IF r.idx + 2 < r.n
    THEN [r EXCEPT !.pc = "mark", !.idx = r.idx + 1]
    ELSE [r EXCEPT !.pc = "result"]

\* for idx in range(len(data)): the next iteration, or the end of the loop
LoopNext(r) ==
    IF r.idx + 1 < r.n
    THEN [r EXCEPT !.pc = "mark", !.idx = r.idx + 1]
    ELSE [r EXCEPT !.pc = "result"]

\* ------------------------------------------------ Broker used directly
\* Constructor arguments of the Brokers explored.  rate 30/1000 with minimum
\* 5: the minimum applies below a notional of 166.67 and the rate above it.
BrokerConfigs ==
    { [initial_capital |-> c, commission_rate |-> 30, min_commission |-> 5,
       stamp_tax |-> 1, slippage |-> s, rate_den |-> 1000, slip_den |-> 10]
      : c \in {100, 2000}, s \in {0, 1} }

OrderSymbols == {"A"}
Sides == {"BUY", "SELL"}
\* arguments of submit_order: valid ones and the two kinds of invalid ones
SubmitQuantities == {-1, 0, 10, 100}
SubmitPrices == {0, 10}
\* fill_price arguments: omitted, or a price above the order's
FillPrices == {<<>>, <<20>>}
\* Order objects a caller builds itself (the dataclass is public) in a final
\* status; fill_order is handed any Order object.
ForeignOrders ==
    { Order(9, "A", "BUY", 10, 10, st) : st \in {"REJECTED", "CANCELLED"} }

\* The last call made and how it ended: the operation, the exception it raised
\* ("none" if it returned), the Order object and Trade it created or was given,
\* the reference price of a fill, and the arguments of a Position call.
Call(op, raised, order, trade, fill_price, args) ==
    [op |-> op, raised |-> raised, order |-> order, trade |-> trade,
     fill_price |-> fill_price, args |-> args]

NoCall == Call("init", "none", NoOrder, NoTrade, 0, <<>>)

NoPosition == Position("", 0, <<0, 1>>, 0)

\* no engine exists (the Broker or the Position is used on its own)
NoEngine == BacktestEngine([initial_capital |-> 1, commission_rate |-> 1,
                            min_commission |-> 1, slippage |-> 1],
                           [initial_capital |-> 1, commission_rate |-> 1,
                            min_commission |-> 1, slippage |-> 1,
                            rate_den |-> 1000, slip_den |-> 10]).self

\* The run of a newly built engine on the same bars and signals, carried
\* along with a run that begins right after construction or reset: that
\* engine and its broker, and the BacktestResult it returns.
Twin(active, self, brk, res) ==
    [active |-> active, self |-> self, broker |-> brk, result |-> res]

NoTwin == Twin(FALSE, NoEngine, <<>>, NoResult)

\* the engine and broker as the constructor left them
NoBuilt == [self |-> NoEngine, broker |-> <<>>]

InitBroker ==
    /\ \E cfg \in BrokerConfigs : broker = Broker(cfg)
    /\ last = NoCall
    /\ pos = NoPosition
    /\ calls = 0
    /\ engine = NoEngine
    /\ run = NoRun
    /\ strategy = Strategy
    /\ result = NoResult
    /\ twin = NoTwin
    /\ built = NoBuilt
    /\ shared = FALSE

\* a caller invokes broker.submit_order(symbol, side, quantity, price)
SubmitOrder ==
    \E symbol \in OrderSymbols, side \in Sides,
       quantity \in SubmitQuantities, price \in SubmitPrices :
        LET r == submit_order(broker, symbol, side, quantity, price)
        IN  /\ r.raised = "none" => Len(broker.orders) < MaxOrders
            /\ broker' = r.self
            /\ last' = Call("submit_order", r.raised, r.order, NoTrade, 0, <<>>)
            /\ UNCHANGED <<pos, calls, engine, run, strategy, result, twin, built, shared>>

\* a caller invokes broker.fill_order(order, fill_price) on an order that
\* submit_order returned; the object is the one in broker.orders
FillOrder ==
    \E i \in 1..Len(broker.orders), fill_price \in FillPrices :
        LET r == fill_order(broker, broker.orders[i], fill_price)
        IN  /\ broker' = [r.self EXCEPT !.orders[i] = r.order]
            /\ last' = Call("fill_order", r.raised, r.order, r.trade,
                             IF r.raised # "none" THEN 0
                             ELSE IF fill_price = <<>> THEN broker.orders[i].price
                             ELSE fill_price[1], <<>>)
            /\ UNCHANGED <<pos, calls, engine, run, strategy, result, twin, built, shared>>

\* a caller invokes broker.fill_order on an Order object of its own
FillForeignOrder ==
    \E order \in ForeignOrders, fill_price \in FillPrices :
        LET r == fill_order(broker, order, fill_price)
        IN  /\ broker' = r.self
            /\ last' = Call("fill_order", r.raised, r.order, r.trade,
                             IF r.raised # "none" THEN 0
                             ELSE IF fill_price = <<>> THEN order.price
                             ELSE fill_price[1], <<>>)
            /\ UNCHANGED <<pos, calls, engine, run, strategy, result, twin, built, shared>>

NextBroker == SubmitOrder \/ FillOrder \/ FillForeignOrder

SpecBroker == InitBroker /\ [][NextBroker]_vars

\* a caller invokes broker.get_cash()
GetCash ==
    /\ LET r == get_cash(broker)
       IN  /\ broker' = r.self
           /\ last' = Call("get_cash", "none", NoOrder, NoTrade, 0, <<r.value>>)
    /\ UNCHANGED <<pos, calls, engine, run, strategy, result, twin, built, shared>>

\* a caller invokes broker.get_total_commission()
GetTotalCommission ==
    /\ LET r == get_total_commission(broker)
       IN  /\ broker' = r.self
           /\ last' = Call("get_total_commission", "none", NoOrder, NoTrade, 0, <<r.value>>)
    /\ UNCHANGED <<pos, calls, engine, run, strategy, result, twin, built, shared>>

\* a caller invokes broker.get_trade_count()
GetTradeCount ==
    /\ LET r == get_trade_count(broker)
       IN  /\ broker' = r.self
           /\ last' = Call("get_trade_count", "none", NoOrder, NoTrade, 0, <<r.value>>)
    /\ UNCHANGED <<pos, calls, engine, run, strategy, result, twin, built, shared>>

\* the Broker used directly, its read methods included
NextBrokerReads ==
    SubmitOrder \/ FillOrder \/ FillForeignOrder \/ GetCash \/ GetTotalCommission \/ GetTradeCount

SpecBrokerReads == InitBroker /\ [][NextBrokerReads]_vars

\* ---------------------------------------------- Position used directly
PositionQuantities == {-1, 0, 1, 2, 3}
PositionPrices == {1, 3}

InitPosition ==
    /\ broker = Broker(CHOOSE cfg \in BrokerConfigs : cfg.initial_capital = 100 /\ cfg.slippage = 0)
    /\ last = NoCall
    /\ calls = 0
    /\ engine = NoEngine
    /\ run = NoRun
    /\ \E price \in PositionPrices : pos = Position("A", 0, <<0, 1>>, price)
    /\ strategy = Strategy
    /\ result = NoResult
    /\ twin = NoTwin
    /\ built = NoBuilt
    /\ shared = FALSE

\* a caller invokes pos.add(quantity, price)
PositionAdd ==
    \E quantity \in PositionQuantities, price \in PositionPrices :
        /\ calls < MaxCalls
        /\ calls' = calls + 1
        /\ pos.quantity + quantity \in -MaxHeld..MaxHeld
        /\ pos' = add(pos, quantity, price)
        /\ last' = Call("add", "none", NoOrder, NoTrade, 0, <<quantity, price>>)
        /\ UNCHANGED <<broker, engine, run, strategy, result, twin, built, shared>>

\* a caller invokes pos.reduce(quantity); last.args holds the argument and
\* the value returned, as numerator and denominator
PositionReduce ==
    \E quantity \in PositionQuantities :
        LET r == reduce(pos, quantity)
        IN  /\ calls < MaxCalls
            /\ calls' = calls + 1
            /\ r.self.quantity \in -MaxHeld..MaxHeld
            /\ pos' = r.self
            /\ last' = Call("reduce", r.raised, NoOrder, NoTrade, 0, <<quantity, r.value[1], r.value[2]>>)
            /\ UNCHANGED <<broker, engine, run, strategy, result, twin, built, shared>>

\* a caller invokes pos.update_price(price)
PositionUpdatePrice ==
    \E price \in PositionPrices :
        /\ calls < MaxCalls
        /\ calls' = calls + 1
        /\ pos' = update_price(pos, price)
        /\ last' = Call("update_price", "none", NoOrder, NoTrade, 0, <<price>>)
        /\ UNCHANGED <<broker, engine, run, strategy, result, twin, built, shared>>

NextPosition == PositionAdd \/ PositionReduce \/ PositionUpdatePrice

SpecPosition == InitPosition /\ [][NextPosition]_vars

\* --------------------------------------- MetricsCalculator used directly
\* The values of the series the metrics are computed for: a portfolio worth
\* nothing, and worths that rise and fall by different amounts.
MetricValues == {0, 9, 10, 11, 12}

\* every value series of at most MaxLen values
ValueSeries == UNION { [1..n -> MetricValues] : n \in 0..MaxLen }

\* a value series is given; engine.portfolio_values holds it
InitMetrics ==
    /\ broker = Broker(CHOOSE cfg \in BrokerConfigs : cfg.initial_capital = 100 /\ cfg.slippage = 0)
    /\ last = NoCall
    /\ pos = NoPosition
    /\ calls = 0
    /\ \E values \in ValueSeries :
          engine = [NoEngine EXCEPT !.portfolio_values = values,
                                    !.dates = [i \in 1..Len(values) |-> i]]
    /\ run = NoRun
    /\ strategy = Strategy
    /\ result = NoResult
    /\ twin = NoTwin
    /\ built = NoBuilt
    /\ shared = FALSE

\* a caller computes the returns of the series as _generate_result does and
\* invokes calculate_all(portfolio_values, returns)
CalculateAll ==
    /\ LET portfolio_series == engine.portfolio_values
           returns == pct_change_fillna(portfolio_series)
       IN  result' = [NoResult EXCEPT !.portfolio_values = portfolio_series,
                                      !.dates = engine.dates,
                                      !.returns = returns,
                                      !.metrics = calculate_all(portfolio_series, returns)]
    /\ last' = Call("calculate_all", "none", NoOrder, NoTrade, 0, <<>>)
    /\ UNCHANGED <<broker, pos, calls, engine, run, strategy, twin, built, shared>>

NextMetrics == CalculateAll

SpecMetrics == InitMetrics /\ [][NextMetrics]_vars

\* ------------------------------------------------------- engine runs
\* Values the global Config returns, and the constructor arguments tried
\* (0: the argument is omitted or falsy, so the Config's value is used).
EngineConfig ==
    [initial_capital |-> 200, commission_rate |-> 30, min_commission |-> 5,
     slippage |-> 0, rate_den |-> 1000, slip_den |-> 10]
EngineArgs ==
    { [initial_capital |-> 2000, commission_rate |-> 30, min_commission |-> 5,
       slippage |-> 1],
      [initial_capital |-> 0, commission_rate |-> 0, min_commission |-> 0,
       slippage |-> 0] }

Symbols == {"A", "B"}
Closes == {10, 20}
\* what strategy.next may return besides None: valid BUY and SELL signals,
\* signals with a price or a quantity that submit_order refuses, and HOLD
Signals ==
    { Signal(a, s, 10, q) : a \in {"BUY", "SELL"}, s \in Symbols, q \in {5, 10} }
    \cup { Signal(a, "A", 0, 5) : a \in {"BUY", "SELL"} }
    \cup { Signal(a, "A", 10, -1) : a \in {"BUY", "SELL"} }
    \cup { Signal("HOLD", "A", 10, 5) }

Init ==
    /\ \E args \in EngineArgs :
          LET e == BacktestEngine(args, EngineConfig)
          IN  engine = e.self /\ broker = e.broker /\ built = e
    /\ run = NoRun
    /\ last = NoCall
    /\ pos = NoPosition
    /\ calls = 0
    /\ strategy = Strategy
    /\ result = NoResult
    /\ twin = NoTwin
    /\ shared = FALSE

\* engine.run(strategy, data, symbol) is called with a new strategy object and
\* data of n bars: an empty data frame raises BacktestError, otherwise
\* strategy.init(data) runs and the loop begins
RunStart ==
    /\ run.pc = "idle"
    /\ \E symbol \in Symbols, n \in 0..(MaxBars - calls) :
          LET r == EnterRun(Strategy, symbol, n)
          IN  /\ last' = Call("run", r.raised, NoOrder, NoTrade, 0, <<n>>)
              /\ strategy' = r.strategy
              /\ run' = r.run
              /\ twin' = IF r.raised = "none" /\ last.op \in {"init", "reset"}
                         THEN Twin(TRUE, built.self, built.broker, NoResult)
                         ELSE IF r.raised = "none" THEN NoTwin ELSE twin
    /\ UNCHANGED <<broker, engine, pos, calls, result, built, shared>>

\* loop body, first part: bar = data.iloc[idx]; strategy.current_index = idx;
\* the position of the run's symbol, if any, is marked to the bar's close
BarMark ==
    /\ run.pc = "mark"
    /\ \E close \in Closes :
          LET bar == [date |-> run.idx + 1, close |-> close]
          IN  /\ run' = [run EXCEPT !.pc = "next", !.bar = bar]
              /\ engine' = MarkBar(engine, broker, run.symbol, bar)
              /\ twin' = IF twin.active
                         THEN [twin EXCEPT !.self = MarkBar(twin.self, twin.broker, run.symbol, bar)]
                         ELSE twin
    /\ strategy' = [strategy EXCEPT !.current_index = run.idx]
    /\ last' = Call("update_price", "none", NoOrder, NoTrade, 0, <<>>)
    /\ UNCHANGED <<broker, pos, calls, result, built, shared>>

\* signal = strategy.next(bar)
StrategyNext ==
    /\ run.pc = "next"
    /\ \E signal \in Signals \cup {NoSignal} :
          run' = [run EXCEPT !.pc = "process", !.signal = signal]
    /\ strategy' = [strategy EXCEPT !.next_bars = Append(@, run.bar.date)]
    /\ last' = Call("next", "none", NoOrder, NoTrade, 0, <<>>)
    /\ UNCHANGED <<broker, engine, pos, calls, result, twin, built, shared>>

\* if signal: self._process_signal(signal, bar); an exception that leaves
\* _process_signal leaves run
ProcessSignal ==
    /\ run.pc = "process"
    /\ IF run.signal = NoSignal
       THEN /\ last' = Call("no_signal", "none", NoOrder, NoTrade, 0, <<>>)
            /\ run' = [run EXCEPT !.pc = "record", !.signal = NoSignal]
            /\ UNCHANGED <<broker, engine, twin>>
       ELSE LET r == _process_signal(engine, broker, run.signal, run.bar)
                t == _process_signal(twin.self, twin.broker, run.signal, run.bar)
            IN  /\ engine' = r.self
                /\ broker' = r.broker
                /\ twin' = IF twin.active
                           THEN [twin EXCEPT !.self = t.self, !.broker = t.broker]
                           ELSE twin
                /\ IF r.raised # "none"
                   THEN /\ last' = Call("run", r.raised, r.order, r.trade, 0, <<>>)
                        /\ run' = NoRun
                   ELSE /\ last' = Call("_process_signal", r.caught, r.order, r.trade,
                                        run.bar.close,
                                        <<run.signal.quantity, run.signal.price,
                                          run.signal.action, run.signal.symbol>>)
                        /\ run' = [run EXCEPT !.pc = "record", !.signal = NoSignal]
    /\ UNCHANGED <<pos, calls, strategy, result, built, shared>>

\* the bar's portfolio value and date are appended; the loop goes on or ends
BarRecord ==
    /\ run.pc = "record"
    /\ engine' = RecordBar(engine, broker, run.bar)
    /\ twin' = IF twin.active
               THEN [twin EXCEPT !.self = RecordBar(twin.self, twin.broker, run.bar)]
               ELSE twin
    /\ run' = LoopNext(run)
    /\ calls' = calls + 1
    /\ last' = Call("record", "none", NoOrder, NoTrade, 0, <<>>)
    /\ UNCHANGED <<broker, pos, strategy, result, built, shared>>

\* _generate_result builds the BacktestResult and run returns it
RunEnd ==
    /\ run.pc = "result"
    /\ result' = _generate_result(engine, broker, run.symbol)
    /\ twin' = IF twin.active
               THEN [twin EXCEPT !.result = _generate_result(twin.self, twin.broker, run.symbol)]
               ELSE twin
    /\ run' = NoRun
    /\ shared' = TRUE
    /\ last' = Call("_generate_result", "none", NoOrder, NoTrade, 0, <<>>)
    /\ UNCHANGED <<broker, engine, pos, calls, strategy, built>>

\* The BacktestResult the caller holds, as it reads now: orders=self.broker.orders
\* and trades=self.broker.trades hand over the broker's list objects, not
\* copies, so while the engine keeps that broker the result shows what the
\* lists hold now; pd.Series(...) copies the values, and returns and metrics
\* are new objects.
HeldResult ==
    IF shared
    THEN [result EXCEPT !.orders = broker.orders, !.trades = broker.trades]
    ELSE result

\* engine.reset() between runs: the engine gets a new Broker, the lists of
\* the old one stay as they are with the result that refers to them
Reset ==
    /\ run.pc = "idle"
    /\ LET r == reset(engine)
       IN  engine' = r.self /\ broker' = r.broker
    /\ result' = HeldResult
    /\ shared' = FALSE
    /\ twin' = NoTwin
    /\ last' = Call("reset", "none", NoOrder, NoTrade, 0, <<>>)
    /\ UNCHANGED <<run, pos, calls, strategy, built>>

Next == RunStart \/ BarMark \/ StrategyNext \/ ProcessSignal \/ BarRecord \/ RunEnd \/ Reset

Spec == Init /\ [][Next]_vars

\* run is one synchronous call: once begun, its steps go on being taken.
\* Weak fairness of each step of the loop; for ProcessSignal and RunEnd it is
\* written with ENABLED <<ProcessSignal>>_vars and ENABLED <<RunEnd>>_vars
\* replaced by their guards run.pc = "process" and run.pc = "result".
\* The engine is the one built from the Config's values.
InitFair == Init /\ engine.initial_capital = EngineConfig.initial_capital

SpecFair ==
    /\ InitFair /\ [][Next]_vars
    /\ WF_vars(BarMark) /\ WF_vars(StrategyNext) /\ WF_vars(BarRecord)
    /\ ([]<>(run.pc # "process") \/ []<><<ProcessSignal>>_vars)
    /\ ([]<>(run.pc # "result") \/ []<><<RunEnd>>_vars)

\* --------------------------------------- two runs that differ in prices
\* The run carried along with a run on a newly built or reset engine sees
\* the same bars and the same signals, except for the price field of the
\* signals: a positive price is replaced by any of these (both pass
\* submit_order's validation).
AdvisoryPrices == {10, 30}

\* if signal: self._process_signal(signal, bar), in both runs
ProcessSignalRepriced ==
    /\ run.pc = "process"
    /\ IF run.signal = NoSignal
       THEN /\ last' = Call("no_signal", "none", NoOrder, NoTrade, 0, <<>>)
            /\ run' = [run EXCEPT !.pc = "record", !.signal = NoSignal]
            /\ UNCHANGED <<broker, engine, twin>>
       ELSE \E price \in IF run.signal.price > 0 THEN AdvisoryPrices ELSE {run.signal.price} :
            LET r == _process_signal(engine, broker, run.signal, run.bar)
                t == _process_signal(twin.self, twin.broker,
                                     [run.signal EXCEPT !.price = price], run.bar)
            IN  /\ engine' = r.self
                /\ broker' = r.broker
                /\ twin' = IF twin.active /\ t.raised = "none"
                           THEN [twin EXCEPT !.self = t.self, !.broker = t.broker]
                           ELSE NoTwin
                /\ IF r.raised # "none"
                   THEN /\ last' = Call("run", r.raised, r.order, r.trade, 0, <<>>)
                        /\ run' = NoRun
                   ELSE /\ last' = Call("_process_signal", r.caught, r.order, r.trade,
                                        run.bar.close,
                                        <<run.signal.quantity, run.signal.price,
                                          run.signal.action, run.signal.symbol>>)
                        /\ run' = [run EXCEPT !.pc = "record", !.signal = NoSignal]
    /\ UNCHANGED <<pos, calls, strategy, result, built, shared>>

NextAdvisory ==
    RunStart \/ BarMark \/ StrategyNext \/ ProcessSignalRepriced \/ BarRecord \/ RunEnd \/ Reset

SpecAdvisory == InitFair /\ [][NextAdvisory]_vars

\* ================================================================ claims
\* the last call was a fill_order that returned a Trade for an order of side
FilledSide(call, side) ==
    call.op = "fill_order" /\ call.raised = "none" /\ call.order.side = side

\* C1: the broker's cash is non-negative in every reachable state, whatever
\* bars and signals the engine replays.
C1_CashNeverNegative == broker.cash >= 0

\* the spec's scenario: capital 100000, rate 0.0003, minimum commission 5,
\* no slippage
ScenarioBroker ==
    Broker([initial_capital |-> 100000, commission_rate |-> 3, min_commission |-> 5,
            stamp_tax |-> 10, slippage |-> 0, rate_den |-> 10000, slip_den |-> 1])

\* BUY 100 @ 10.00 on the scenario's broker leaves cash 98995.00
ScenarioBuy ==
    LET s == submit_order(ScenarioBroker, "A", "BUY", 100, 10)
        f == fill_order(s.self, s.order, <<>>)
    IN  /\ s.raised = "none" /\ f.raised = "none"
        /\ f.trade.commission = Money(ScenarioBroker, 5)
        /\ f.self.cash = Money(ScenarioBroker, 98995)

\* C2: every BUY fill at reference price p takes exactly
\* quantity*p*(1+slippage) + commission from cash, where commission =
\* max(quantity*p*(1+slippage)*commission_rate, min_commission) >=
\* min_commission and no stamp tax is charged; the spec's scenario leaves
\* cash 98995.00.
C2_BuyFillCash ==
    /\ [][FilledSide(last', "BUY") =>
            LET q == last'.order.quantity
                p == last'.fill_price
                notional == q * p * (broker.slip_den + broker.slippage)
                commission == Max(notional * broker.commission_rate, broker.min_commission)
            IN  /\ broker'.cash = broker.cash - (notional * broker.rate_den + commission)
                /\ last'.trade.commission = commission
                /\ commission >= broker.min_commission]_vars
    /\ [](ScenarioBuy)

\* a BUY was filled with slippage, at a notional where the rate exceeds the
\* minimum commission
C2_Witness ==
    /\ FilledSide(last, "BUY")
    /\ broker.slippage > 0
    /\ last.trade.commission > broker.min_commission

\* C3: every SELL fill at reference price p adds exactly
\* quantity*p*(1-slippage) - commission - stamp_tax to cash, with commission
\* = max(notional*commission_rate, min_commission), stamp_tax =
\* notional*stamp_tax_rate, notional = quantity*p*(1-slippage); a BUY fill
\* pays the notional and the commission only, never the stamp tax.
C3_SellFillCash ==
    /\ [][FilledSide(last', "SELL") =>
            LET q == last'.order.quantity
                p == last'.fill_price
                notional == q * p * (broker.slip_den - broker.slippage)
                commission == Max(notional * broker.commission_rate, broker.min_commission)
                stamp_tax == notional * broker.stamp_tax
            IN  /\ broker'.cash =
                      broker.cash + (notional * broker.rate_den - commission - stamp_tax)
                /\ last'.trade.commission = commission]_vars
    /\ [][FilledSide(last', "BUY") =>
            broker.cash - broker'.cash =
                last'.trade.quantity * last'.trade.price * broker.rate_den
                + last'.trade.commission]_vars

\* a SELL was filled with slippage and a positive stamp tax rate, the
\* commission above the minimum
C3_Witness ==
    /\ FilledSide(last, "SELL")
    /\ broker.slippage > 0
    /\ broker.stamp_tax > 0
    /\ last.trade.commission > broker.min_commission

\* C4 as stated: Position.quantity is never negative after any sequence of
\* add, reduce and update_price calls, and reduce(q) with q above the held
\* quantity raises and leaves quantity, avg_cost and current_price as they
\* were.
C4_QuantityNeverNegative ==
    /\ [](pos.quantity >= 0)
    /\ [][(last'.op = "reduce" /\ last'.args[1] > pos.quantity) =>
            (last'.raised = "ValueError" /\ pos' = pos)]_vars

\* C4 amended: a call never makes a non-negative quantity negative, provided
\* add is called with quantity >= 0 (reduce and update_price with any
\* argument); reduce(q) with q above the held quantity raises and leaves the
\* position as it was.
C4_QuantityNonNegativeUnlessAddNegative ==
    /\ [][(pos.quantity >= 0 /\ (last'.op = "add" => last'.args[1] >= 0)) =>
            pos'.quantity >= 0]_vars
    /\ [][(last'.op = "reduce" /\ last'.args[1] > pos.quantity) =>
            (last'.raised = "ValueError" /\ pos' = pos)]_vars

\* reduce was refused on a position that holds shares at a non-zero cost
C4_Witness ==
    /\ last.op = "reduce" /\ last.raised = "ValueError"
    /\ pos.quantity > 0 /\ pos.avg_cost # <<0, 1>>
    /\ last.args[1] > pos.quantity

\* the step processes a SELL signal while its symbol is held
SellWhileHeld ==
    /\ run.pc = "process"
    /\ run.signal.action = "SELL"
    /\ Held(engine.positions, run.signal.symbol) > 0

\* the step submitted a SELL of quantity at the signal's price, filled it at
\* the bar's close less slippage and took quantity from the holding
SoldAtClose(quantity) ==
    /\ last'.op = "_process_signal" /\ last'.raised = "none"
    /\ last'.order.side = "SELL" /\ last'.order.status = "FILLED"
    /\ last'.order.quantity = quantity
    /\ last'.order.price = run.signal.price
    /\ last'.trade.quantity = quantity
    /\ last'.trade.price = run.bar.close * (broker.slip_den - broker.slippage)
    /\ broker'.orders = Append(broker.orders, last'.order)
    /\ Held(engine'.positions, run.signal.symbol) =
           Held(engine.positions, run.signal.symbol) - quantity
    /\ Held(engine'.positions, run.signal.symbol) >= 0

\* C5 as stated: every SELL signal processed while its symbol is held is
\* submitted with quantity min(signal.quantity, held), filled at the bar's
\* close, and takes that quantity from the holding.
C5_EverySellClampedAndFilled ==
    [][SellWhileHeld =>
          SoldAtClose(Min(run.signal.quantity, Held(engine.positions, run.signal.symbol)))]_vars

\* C5 amended: no holding is ever negative; a SELL signal with quantity > 0
\* and price > 0 processed while its symbol is held is submitted with
\* quantity min(signal.quantity, held), filled at the bar's close and takes
\* that quantity from the holding; a SELL signal with quantity <= 0 or
\* price <= 0 is refused with InvalidOrderError, which the engine catches,
\* and changes neither the holding nor the broker.
C5_ValidSellClampedAndFilled ==
    /\ [](\A s \in DOMAIN engine.positions : engine.positions[s].quantity >= 0)
    /\ [][(SellWhileHeld /\ run.signal.quantity > 0 /\ run.signal.price > 0) =>
            SoldAtClose(Min(run.signal.quantity, Held(engine.positions, run.signal.symbol)))]_vars
    /\ [][(SellWhileHeld /\ (run.signal.quantity <= 0 \/ run.signal.price <= 0)) =>
            /\ last'.raised = "InvalidOrderError"
            /\ engine'.positions = engine.positions
            /\ broker' = broker]_vars

\* a SELL for more than is held was clamped: the holding went to 0 through a
\* trade smaller than the signal's quantity
C5_Witness ==
    /\ last.op = "_process_signal" /\ last.raised = "none"
    /\ last.order.side = "SELL" /\ last.order.status = "FILLED"
    /\ last.args[1] = 10
    /\ last.order.quantity = 5
    /\ Held(engine.positions, last.order.symbol) = 0
    /\ \E i \in 1..Len(broker.trades) :
          broker.trades[i].side = "BUY" /\ broker.trades[i].symbol = last.order.symbol

\* total cost submit_order computes for a BUY of quantity at price, written
\* out: quantity*price + max(quantity*price*commission_rate, min_commission)
BuyCost(quantity, price) ==
    quantity * price * broker.slip_den * broker.rate_den
    + Max(quantity * price * broker.slip_den * broker.commission_rate, broker.min_commission)

\* capital 100, BUY 100 @ 10: InsufficientFundsError, cash stays 100
ScenarioInsufficientFunds ==
    \A cfg \in { c \in BrokerConfigs : c.initial_capital = 100 } :
        LET s == submit_order(Broker(cfg), "A", "BUY", 100, 10)
        IN  /\ s.raised = "InsufficientFundsError"
            /\ s.order.status = "REJECTED"
            /\ s.self.cash = 100 * cfg.slip_den * cfg.rate_den
            /\ s.self.trades = <<>>

\* C6: submit_order for a BUY whose total cost exceeds the current cash fails
\* with InsufficientFundsError, the order's status is REJECTED, and cash and
\* the trade list are unchanged.
C6_InsufficientFundsRejected ==
    /\ [](\A symbol \in OrderSymbols, quantity \in SubmitQuantities, price \in SubmitPrices :
            (quantity > 0 /\ price > 0 /\ BuyCost(quantity, price) > broker.cash) =>
                LET s == submit_order(broker, symbol, "BUY", quantity, price)
                IN  /\ s.raised = "InsufficientFundsError"
                    /\ s.order.status = "REJECTED"
                    /\ s.self.cash = broker.cash
                    /\ s.self.trades = broker.trades)
    /\ [][(last'.op = "submit_order" /\ last'.raised = "InsufficientFundsError") =>
            /\ last'.order.side = "BUY"
            /\ last'.order.status = "REJECTED"
            /\ BuyCost(last'.order.quantity, last'.order.price) > broker.cash
            /\ broker'.cash = broker.cash
            /\ broker'.trades = broker.trades]_vars
    /\ [][(last'.op = "submit_order" /\ last'.raised = "none" /\ last'.order.side = "BUY") =>
            BuyCost(last'.order.quantity, last'.order.price) <= broker.cash]_vars
    /\ [](ScenarioInsufficientFunds)

\* the scenario happened: with all of the capital of 100 in cash, BUY 100 @ 10
\* was refused
C6_Witness ==
    /\ last.op = "submit_order" /\ last.raised = "InsufficientFundsError"
    /\ last.order.quantity = 100 /\ last.order.price = 10
    /\ broker.cash = Money(broker, 100)
    /\ broker.initial_capital = Money(broker, 100)

\* C7: after submit_order fails with InsufficientFundsError the rejected order
\* is in the broker's order history, with status REJECTED.
C7_RejectedOrderRecorded ==
    (last.op = "submit_order" /\ last.raised = "InsufficientFundsError") =>
        \E i \in 1..Len(broker.orders) :
            /\ broker.orders[i].status = "REJECTED"
            /\ broker.orders[i].order_id = last.order.order_id

\* C8: submit_order with quantity <= 0 or price <= 0 fails with
\* InvalidOrderError and records nothing; every order in the broker's history
\* has quantity > 0 and price > 0.
C8_InvalidOrderRecordsNothing ==
    /\ [](\A symbol \in OrderSymbols, side \in Sides,
             quantity \in SubmitQuantities, price \in SubmitPrices :
            (quantity <= 0 \/ price <= 0) =>
                LET s == submit_order(broker, symbol, side, quantity, price)
                IN  s.raised = "InvalidOrderError" /\ s.self = broker /\ s.order = NoOrder)
    /\ [][(last'.op = "submit_order" /\ last'.raised = "InvalidOrderError") =>
            broker' = broker]_vars
    /\ [](\A i \in 1..Len(broker.orders) :
            broker.orders[i].quantity > 0 /\ broker.orders[i].price > 0)

\* an invalid submission was refused by a broker that has orders and a trade
C8_Witness ==
    /\ last.op = "submit_order" /\ last.raised = "InvalidOrderError"
    /\ Len(broker.orders) > 0 /\ Len(broker.trades) > 0

\* C9: fill_order on an order that is not PENDING fails with
\* InvalidOrderError and changes nothing (cash, the order, the trades), so no
\* order is filled twice.
C9_FillNonPendingRefused ==
    /\ [](\A order \in {broker.orders[i] : i \in 1..Len(broker.orders)} \cup ForeignOrders,
             fill_price \in FillPrices :
            order.status # "PENDING" =>
                LET f == fill_order(broker, order, fill_price)
                IN  /\ f.raised = "InvalidOrderError"
                    /\ f.self = broker /\ f.order = order /\ f.trade = NoTrade)
    /\ [][(last'.op = "fill_order" /\ last'.raised = "InvalidOrderError") =>
            (broker' = broker /\ last'.order.status # "PENDING")]_vars
    /\ [][(last'.op = "fill_order" /\ last'.raised = "none") =>
            \E i \in 1..Len(broker.orders) :
                /\ broker.orders[i].status = "PENDING"
                /\ last'.order.order_id = broker.orders[i].order_id]_vars
    /\ [](\A i, j \in 1..Len(broker.trades) :
            i # j => broker.trades[i].order_id # broker.trades[j].order_id)

\* a second fill of an order that is already FILLED was refused
C9_Witness ==
    /\ last.op = "fill_order" /\ last.raised = "InvalidOrderError"
    /\ last.order.status = "FILLED"
    /\ \E i \in 1..Len(broker.orders) : broker.orders[i] = last.order

\* C10: an order's status only moves PENDING -> FILLED or PENDING ->
\* REJECTED: no operation changes an order of the history that is FILLED or
\* REJECTED, a recorded order changes status only from PENDING to FILLED, an
\* order is REJECTED only by the submit_order that created it, and no order
\* the broker created is CANCELLED.
C10_StatusTransitions ==
    /\ [][\A i \in 1..Len(broker.orders) :
            /\ Len(broker'.orders) >= i
            /\ broker.orders[i].status \in {"FILLED", "REJECTED"} =>
                  broker'.orders[i] = broker.orders[i]
            /\ broker'.orders[i].status # broker.orders[i].status =>
                  (broker.orders[i].status = "PENDING" /\ broker'.orders[i].status = "FILLED")
            /\ broker'.orders[i].status = broker.orders[i].status =>
                  broker'.orders[i] = broker.orders[i]]_vars
    /\ [][\A i \in (Len(broker.orders) + 1)..Len(broker'.orders) :
            broker'.orders[i].status = "PENDING"]_vars
    /\ [](\A i \in 1..Len(broker.orders) : broker.orders[i].status \in {"PENDING", "FILLED"})
    /\ [](last.op = "submit_order" => last.order.status \in {"NONE", "PENDING", "REJECTED"})
    /\ [](last.op = "submit_order" =>
            (last.order.status = "REJECTED" <=> last.raised = "InsufficientFundsError"))

\* a FILLED order was left alone by a later submission and a later fill
C10_Witness ==
    /\ Len(broker.orders) = 2
    /\ broker.orders[1].status = "FILLED" /\ broker.orders[2].status = "FILLED"
    /\ Len(broker.trades) = 2 /\ broker.trades[1].order_id = 1

\* s is an initial segment of t
IsPrefix(s, t) == Len(s) <= Len(t) /\ \A i \in 1..Len(s) : t[i] = s[i]

\* the places in the broker's history that hold a FILLED order
FilledOrders(self) == {i \in 1..Len(self.orders) : self.orders[i].status = "FILLED"}

\* C11: in every reachable state of a Broker there are as many trades as
\* FILLED orders, every trade names a FILLED order of its own and carries
\* that order's symbol, side, quantity (the whole order), executed price and
\* commission; and no broker operation changes or removes a trade that is
\* already in the list.
C11_OneTradePerFill ==
    /\ [](/\ Len(broker.trades) = Cardinality(FilledOrders(broker))
          /\ \A t \in 1..Len(broker.trades) :
                \E i \in FilledOrders(broker) :
                    LET trade == broker.trades[t]
                        order == broker.orders[i]
                    IN  /\ trade.order_id = order.order_id
                        /\ trade.symbol = order.symbol
                        /\ trade.side = order.side
                        /\ trade.quantity = order.quantity
                        /\ trade.price = order.filled_price
                        /\ trade.commission = order.commission
          /\ \A t1, t2 \in 1..Len(broker.trades) :
                t1 # t2 => broker.trades[t1].order_id # broker.trades[t2].order_id)
    /\ [][IsPrefix(broker.trades, broker'.trades)]_vars

\* a trade exists, and operations went on after it: a second order was
\* submitted and is still PENDING
C11_Witness ==
    /\ Len(broker.trades) = 1
    /\ Len(broker.orders) = 2
    /\ broker.orders[1].status = "FILLED"
    /\ broker.orders[2].status = "PENDING"
    /\ last.op = "submit_order"

\* C12: during run, strategy.init has run once and strategy.next is called
\* once per bar, in bar order; within a bar the steps are (1) mark the held
\* position to the close, (2) strategy.next(bar), (3) process the signal,
\* (4) append the portfolio value and date; the next bar begins only after
\* step 4, and the loop ends only after the last bar.
C12_BarStepsInOrder ==
    /\ [](run.pc # "idle" =>
            /\ strategy.init_calls = 1
            /\ strategy.next_bars =
                  [i \in 1..(IF run.pc \in {"mark", "next"} THEN run.idx ELSE run.idx + 1) |-> i])
    /\ [][/\ run.pc = "mark" =>
                /\ run'.pc = "next" /\ run'.idx = run.idx
                /\ run'.bar.date = run.idx + 1
                /\ run.symbol \in DOMAIN engine.positions =>
                      engine'.positions[run.symbol].current_price = Slipped(broker, run'.bar.close)
                /\ strategy'.next_bars = strategy.next_bars
                /\ engine'.dates = engine.dates
                /\ broker' = broker
          /\ run.pc = "next" =>
                /\ run'.pc = "process" /\ run'.idx = run.idx /\ run'.bar = run.bar
                /\ strategy'.next_bars = Append(strategy.next_bars, run.bar.date)
                /\ engine' = engine /\ broker' = broker
          /\ run.pc = "process" =>
                /\ run'.pc = "record" /\ run'.idx = run.idx /\ run'.bar = run.bar
                /\ strategy' = strategy
                /\ engine'.dates = engine.dates
                /\ engine'.portfolio_values = engine.portfolio_values
          /\ run.pc = "record" =>
                /\ engine'.dates = Append(engine.dates, run.bar.date)
                /\ Len(engine'.portfolio_values) = Len(engine.portfolio_values) + 1
                /\ strategy' = strategy /\ broker' = broker
                /\ IF run.idx + 1 < run.n
                   THEN run'.pc = "mark" /\ run'.idx = run.idx + 1
                   ELSE run'.pc = "result"]_vars

\* a run of two bars has reached its end
C12_Witness ==
    /\ run.pc = "result" /\ run.n = 2
    /\ strategy.next_bars = <<1, 2>>
    /\ Len(engine.dates) >= 2
    /\ Len(broker.trades) > 0

\* C13: a BUY signal that succeeds is filled at the bar's close adjusted by
\* slippage (trade.price = close * (1 + slippage)), whatever signal.price
\* is, for the signal's quantity; the position of the signal's symbol exists
\* afterwards, its quantity has grown by the traded quantity and its cost
\* basis by traded quantity * traded price.
C13_BuyFilledAtClose ==
    [][(run.pc = "process" /\ run.signal.action = "BUY" /\ last'.raised = "none") =>
         LET trade == last'.trade
             symbol == run.signal.symbol
             before == IF symbol \in DOMAIN engine.positions
                       THEN cost_basis(engine.positions[symbol])
                       ELSE <<0, 1>>
         IN  /\ trade # NoTrade
             /\ trade.symbol = symbol /\ trade.side = "BUY"
             /\ trade.quantity = run.signal.quantity
             /\ trade.price = run.bar.close * (broker.slip_den + broker.slippage)
             /\ symbol \in DOMAIN engine'.positions
             /\ engine'.positions[symbol].quantity =
                   Held(engine.positions, symbol) + trade.quantity
             /\ cost_basis(engine'.positions[symbol]) =
                   Frac(before[1] + trade.quantity * trade.price * before[2], before[2])]_vars

\* a BUY was filled on a bar whose close differs from the signal's price
C13_Witness ==
    /\ last.op = "_process_signal" /\ last.raised = "none"
    /\ last.args[3] = "BUY"
    /\ last.trade # NoTrade
    /\ last.fill_price = 20 /\ last.args[2] = 10
    /\ last.trade.price = 20 * (broker.slip_den + broker.slippage)
    /\ Held(engine.positions, last.args[4]) > last.trade.quantity

\* C14: when a BUY signal fails with InsufficientFundsError or
\* InvalidOrderError the engine and the broker are as before (cash, order
\* history, trade list, position map), and the run goes on to the value
\* recording of the same bar.
C14_FailedBuyChangesNothing ==
    [][(run.pc = "process" /\ run.signal.action = "BUY"
        /\ last'.raised \in {"InsufficientFundsError", "InvalidOrderError"}) =>
         /\ broker' = broker
         /\ engine' = engine
         /\ last'.op = "_process_signal"
         /\ run'.pc = "record" /\ run'.idx = run.idx /\ run'.bar = run.bar]_vars

\* a BUY was refused for lack of funds on an engine that holds a position
C14_Witness ==
    /\ last.op = "_process_signal" /\ last.raised = "InsufficientFundsError"
    /\ last.args[3] = "BUY"
    /\ run.pc = "record"
    /\ Len(broker.orders) = 1 /\ Len(broker.trades) = 1

HoldingsValue(positions) ==
    (IF "A" \in DOMAIN positions
     THEN positions["A"].quantity * positions["A"].current_price ELSE 0)
    + (IF "B" \in DOMAIN positions
       THEN positions["B"].quantity * positions["B"].current_price ELSE 0)

\* C16: each bar appends exactly one value, cash + sum of quantity * current
\* price, and that bar's date, and no other step of a run touches the two
\* series; when run began on a newly built or reset engine both series have
\* len(data) entries at its end; final_capital is the last value.
C16_OneValuePerBar ==
    [][/\ run.pc = "record" =>
             /\ engine'.portfolio_values =
                   Append(engine.portfolio_values,
                          broker.cash + broker.rate_den * HoldingsValue(engine.positions))
             /\ engine'.dates = Append(engine.dates, run.bar.date)
       /\ run.pc \in {"mark", "next", "process", "result"} =>
             /\ engine'.portfolio_values = engine.portfolio_values
             /\ engine'.dates = engine.dates
       /\ run.pc = "result" =>
             /\ result'.final_capital = engine.portfolio_values[Len(engine.portfolio_values)]
             /\ result'.portfolio_values = engine.portfolio_values
             /\ result'.dates = engine.dates
             /\ twin.active =>
                   /\ Len(engine.portfolio_values) = run.n
                   /\ Len(engine.dates) = run.n]_vars

\* a run of two bars on a reset engine has returned, with a position held
C16_Witness ==
    /\ run.pc = "idle" /\ last.op = "_generate_result"
    /\ twin.active
    /\ Len(result.portfolio_values) = 2 /\ result.dates = <<1, 2>>
    /\ result.final_capital = result.portfolio_values[2]
    /\ HoldingsValue(engine.positions) > 0
    /\ result.final_capital = broker.cash + broker.rate_den * HoldingsValue(engine.positions)

\* C17: run on an empty data frame raises BacktestError before anything
\* else: neither strategy.init nor strategy.next is called, and the broker,
\* the position map and the two series are as before.
C17_EmptyDataRaises ==
    [][(run.pc = "idle" /\ last'.op = "run" /\ last'.args = <<0>>) =>
         /\ last'.raised = "BacktestError"
         /\ strategy'.init_calls = 0 /\ strategy'.next_bars = <<>>
         /\ broker' = broker
         /\ engine' = engine
         /\ run' = run]_vars

\* run was refused for empty data on an engine that has state
C17_Witness ==
    /\ last.op = "run" /\ last.raised = "BacktestError"
    /\ strategy.init_calls = 0
    /\ Len(engine.portfolio_values) > 0
    /\ Len(broker.trades) > 0

\* C18: once begun, run goes through every bar and returns a
\* BacktestResult, whatever the signals are: no step of the loop leaves run,
\* a signal the broker refuses leaves engine and broker as they were, and
\* the series and histories built on earlier bars only grow.
C18_RunTerminates ==
    /\ [][/\ run.pc = "process" =>
                /\ run'.pc = "record"
                /\ last'.raised # "none" => (engine' = engine /\ broker' = broker)
          /\ run.pc # "idle" =>
                /\ run'.pc = "idle" =>
                      (/\ run.pc = "result" /\ last'.op = "_generate_result"
                       /\ Len(strategy.next_bars) = run.n
                       /\ result' # NoResult)
                /\ IsPrefix(engine.portfolio_values, engine'.portfolio_values)
                /\ IsPrefix(engine.dates, engine'.dates)
                /\ IsPrefix(broker.orders, broker'.orders)
                /\ IsPrefix(broker.trades, broker'.trades)]_vars
    /\ (run.pc # "idle") ~> (run.pc = "idle" /\ last.op = "_generate_result")

\* on the second bar the broker refused the order, after a fill on the first
C18_Witness ==
    /\ run.pc = "record" /\ run.idx = 1
    /\ last.op = "_process_signal" /\ last.raised = "InvalidOrderError"
    /\ Len(broker.trades) = 1
    /\ Len(engine.portfolio_values) = 1

\* C19: a run that begins right after reset returns the BacktestResult that
\* a newly built engine returns for the same bars and signals (value series,
\* dates, returns, orders, trades, final capital, metrics), whatever the
\* engine had gone through before the reset.
C19_ResetThenRunAsFresh ==
    (twin.active /\ run.pc = "idle" /\ last.op = "_generate_result") =>
        result = twin.result

\* the engine had processed a bar before the reset, and the run after the
\* reset traded
C19_Witness ==
    /\ twin.active /\ run.pc = "idle" /\ last.op = "_generate_result"
    /\ calls > Len(result.portfolio_values)
    /\ Len(result.trades) > 0
    /\ result = twin.result

\* C20: after reset the engine is as the constructor left it: cash is
\* initial_capital, order and trade histories, position map, value and date
\* series are empty, and the broker's rates are those of construction.
C20_ResetRestoresInitialState ==
    last.op = "reset" =>
        /\ broker.cash = Money(broker, engine.initial_capital)
        /\ broker.orders = <<>> /\ broker.trades = <<>>
        /\ DOMAIN engine.positions = {}
        /\ engine.portfolio_values = <<>> /\ engine.dates = <<>>
        /\ broker.commission_rate = built.broker.commission_rate
        /\ broker.min_commission = built.broker.min_commission
        /\ broker.slippage = built.broker.slippage
        /\ broker.stamp_tax = built.broker.stamp_tax
        /\ engine = built.self
        /\ broker = built.broker

\* reset was called after the bars of the bound had been processed
C20_Witness ==
    /\ last.op = "reset"
    /\ calls = MaxBars
    /\ broker.cash = built.broker.cash

\* C21: a BacktestResult that was returned reads the same after every later
\* step on the engine that produced it (reset, the steps of another run):
\* its orders, trades, value series, returns and metrics do not change.
C21_ResultReadOnly ==
    [][(result # NoResult /\ run.pc # "result") => HeldResult' = HeldResult]_vars

\* cummax(V)_t is positive and (cummax(V)_t - V_t) / cummax(V)_t equals m
DrawdownAt(values, t, m) ==
    /\ CumMaxAt(values, t) > 0 /\ m[2] > 0
    /\ (CumMaxAt(values, t) - values[t]) * m[2] = m[1] * CumMaxAt(values, t)

\* cummax(V)_t is positive and (cummax(V)_t - V_t) / cummax(V)_t is at most m
DrawdownAtMost(values, t, m) ==
    /\ CumMaxAt(values, t) > 0 /\ m[2] > 0
    /\ (CumMaxAt(values, t) - values[t]) * m[2] <= m[1] * CumMaxAt(values, t)

NonDecreasing(values) ==
    \A i \in 1..Len(values) : i > 1 => values[i - 1] <= values[i]

\* C22: for every value series V that is not empty, max_drawdown(V) is the
\* largest (cummax(V)_t - V_t) / cummax(V)_t over t, it is a number >= 0, and
\* it is 0 exactly when V is non-decreasing; [100, 110, 90, 120] gives
\* 20/110.
C22_MaxDrawdown ==
    /\ max_drawdown(<<100, 110, 90, 120>>) = Ratio(20, 110)
    /\ (last.op = "calculate_all" /\ Len(result.portfolio_values) > 0) =>
          LET V == result.portfolio_values
              m == result.metrics.max_drawdown
          IN  /\ \E t \in 1..Len(V) : DrawdownAt(V, t, m)
              /\ \A t \in 1..Len(V) : DrawdownAtMost(V, t, m)
              /\ m[2] > 0 /\ m[1] >= 0
              /\ (m[1] = 0) <=> NonDecreasing(V)

\* The same statement for the series whose first value is positive.
C22_PositiveStart ==
    (last.op = "calculate_all" /\ Len(result.portfolio_values) > 0
     /\ result.portfolio_values[1] > 0) =>
          LET V == result.portfolio_values
              m == result.metrics.max_drawdown
          IN  /\ \E t \in 1..Len(V) : DrawdownAt(V, t, m)
              /\ \A t \in 1..Len(V) : DrawdownAtMost(V, t, m)
              /\ m[2] > 0 /\ m[1] >= 0
              /\ (m[1] = 0) <=> NonDecreasing(V)


\* C23: total_return(V) is (V_last - V_first) / V_first; it is 0 when V is
\* empty or V_first is 0, and exactly 0 for every constant series.
C23_TotalReturn ==
    last.op = "calculate_all" =>
        LET V == result.portfolio_values
            r == result.metrics.total_return
        IN  /\ (Len(V) = 0 \/ V[1] = 0) => r = <<0, 1>>
            /\ (Len(V) > 0 /\ V[1] # 0) =>
                  /\ r[2] > 0
                  /\ r[1] * V[1] = (V[Len(V)] - V[1]) * r[2]
            /\ (\A i \in 1..Len(V) : V[i] = V[1]) => r = <<0, 1>>

\* the total return of a series that ends below its positive first value
\* was computed
C23_Witness ==
    /\ last.op = "calculate_all"
    /\ Len(result.portfolio_values) >= 2
    /\ result.portfolio_values[1] > 0
    /\ result.portfolio_values[Len(result.portfolio_values)] < result.portfolio_values[1]
    /\ result.metrics.total_return[1] < 0

\* a float class that is a defined number
Defined(c) == c \notin {"nan", "inf", "-inf"}

\* C24: for an empty series, a single-element series, a constant series and
\* a series whose first value is 0, each of total_return, annual_return,
\* volatility, max_drawdown, sharpe, sortino and calmar returns a defined
\* number; it is 0 for the empty, the single-element and the constant series,
\* sharpe is 0 if std(R) = 0, sortino is 0 if R has no negative entry and
\* calmar is 0 if max_drawdown is 0.
C24_DegenerateInputsGiveZero ==
    LET V == result.portfolio_values
        R == result.returns
        m == result.metrics
        constant == \A i \in 1..Len(V) : V[i] = V[1]
        all == {FloatClass(m.total_return), m.annual_return, m.volatility,
                FloatClass(m.max_drawdown), m.sharpe_ratio, m.sortino_ratio,
                m.calmar_ratio}
    IN  (last.op = "calculate_all" /\ (Len(V) <= 1 \/ constant \/ V[1] = 0)) =>
            /\ \A c \in all : Defined(c)
            /\ (Len(V) <= 1 \/ constant) => all = {"zero"}
            /\ SeriesStd(R) = "zero" => m.sharpe_ratio = "zero"
            /\ (\A i \in 1..Len(R) : R[i][1] >= 0) => m.sortino_ratio = "zero"
            /\ m.max_drawdown = <<0, 1>> => m.calmar_ratio = "zero"

\* avg is (old.quantity * old.avg_cost + quantity * price) / (old.quantity + quantity)
IsWeightedAverage(avg, old, quantity, price) ==
    /\ old.quantity + quantity # 0
    /\ avg[2] > 0
    /\ avg[1] * old.avg_cost[2] * (old.quantity + quantity)
         = (old.quantity * old.avg_cost[1] + quantity * price * old.avg_cost[2]) * avg[2]

\* C25: add(quantity, price) with quantity > 0 sets quantity to
\* old_quantity + quantity and avg_cost to the weighted average
\* (old_quantity * old_avg_cost + quantity * price) / (old_quantity + quantity)
\* and leaves current_price unchanged; on an empty position the new avg_cost
\* is price.
C25_AddWeightedAverage ==
    [][(last'.op = "add" /\ last'.args[1] > 0) =>
          /\ pos'.quantity = pos.quantity + last'.args[1]
          /\ IsWeightedAverage(pos'.avg_cost, pos, last'.args[1], last'.args[2])
          /\ pos'.current_price = pos.current_price
          /\ pos.quantity = 0 => pos'.avg_cost = <<last'.args[2], 1>>]_vars

\* C25 amended: the same, with avg_cost the weighted average when the
\* resulting quantity is positive (as it is whenever the old quantity was
\* not negative) and 0 when it is not.
C25_AddWeightedAverageIfHeld ==
    [][(last'.op = "add" /\ last'.args[1] > 0) =>
          /\ pos'.quantity = pos.quantity + last'.args[1]
          /\ pos'.quantity > 0 =>
                IsWeightedAverage(pos'.avg_cost, pos, last'.args[1], last'.args[2])
          /\ pos'.quantity <= 0 => pos'.avg_cost = <<0, 1>>
          /\ pos.quantity >= 0 => pos'.quantity > 0
          /\ pos'.current_price = pos.current_price
          /\ pos.quantity = 0 => pos'.avg_cost = <<last'.args[2], 1>>]_vars

\* a lot was added to a position already held, at a price other than the
\* resulting average cost
C25_Witness ==
    /\ last.op = "add" /\ last.args[1] > 0
    /\ pos.quantity > last.args[1]
    /\ pos.avg_cost[1] # last.args[2] * pos.avg_cost[2]

C27_PositionCounterTracksFills ==
    (run.pc = "next" /\ twin.active) =>
        strategy.current_position = Held(engine.positions, run.symbol)

\* r is the float (cur - prev) / prev, for prev # 0
IsPctChange(r, prev, cur) ==
    /\ r[2] > 0
    /\ prev % r[2] = 0
    /\ r[1] * (prev \div r[2]) = cur - prev

\* C28: when run ends, the result's returns are the change of the value
\* series from each entry to the next, relative to the earlier one, with 0
\* as first entry; returns, values and dates have the same length; and the
\* metrics are computed once, by the step that follows the last bar, from
\* the complete series.
C28_ReturnsAndMetricsAtEnd ==
    [][/\ run.pc = "result" =>
             LET V == engine.portfolio_values
                 R == result'.returns
             IN  /\ Len(R) = Len(V) /\ Len(result'.portfolio_values) = Len(V)
                 /\ result'.dates = engine.dates /\ Len(result'.dates) = Len(R)
                 /\ \A i \in 1..Len(R) :
                       /\ i = 1 => R[i] = <<0, 1>>
                       /\ (i > 1 /\ V[i - 1] # 0) => IsPctChange(R[i], V[i - 1], V[i])
                 /\ result'.metrics = calculate_all(V, R)
                 /\ result'.metrics.trading_days = Len(V)
                 /\ twin.active => result'.metrics.trading_days = run.n
       /\ run.pc # "result" =>
             /\ result'.metrics = result.metrics
             /\ result'.returns = result.returns]_vars

\* a run of two bars has returned a result whose second return is not 0
C28_Witness ==
    /\ run.pc = "idle" /\ last.op = "_generate_result"
    /\ Len(result.returns) = 2
    /\ result.returns[1] = <<0, 1>> /\ result.returns[2][1] # 0
    /\ result.metrics.trading_days = 2

\* what a trade records of a fill: symbol, side, quantity, price, commission
Fills(trades) ==
    [i \in 1..Len(trades) |->
        <<trades[i].symbol, trades[i].side, trades[i].quantity, trades[i].price,
          trades[i].commission>>]

\* C29: two runs on equal engines over the same bars, whose signals differ
\* only in their price field, end with the same cash, positions, filled
\* trades and value series.
C29_SignalPriceAdvisory ==
    (twin.active /\ run.pc = "idle" /\ last.op = "_generate_result") =>
        /\ broker.cash = twin.broker.cash
        /\ engine.positions = twin.self.positions
        /\ Fills(result.trades) = Fills(twin.result.trades)
        /\ result.portfolio_values = twin.result.portfolio_values

\* the commissions of the trades, added up from the last trade backwards
RECURSIVE CommissionOfTrades(_)
CommissionOfTrades(trades) ==
    IF trades = <<>> THEN 0
    ELSE CommissionOfTrades(SubSeq(trades, 1, Len(trades) - 1)) + trades[Len(trades)].commission

\* C30: only fill_order changes the broker's cash or its trades; submit_order
\* changes at most the order history, to which it may append; get_cash,
\* get_total_commission and get_trade_count change nothing and return the
\* cash, the sum of the commissions of all trades and the number of trades.
C30_OnlyDocumentedMutators ==
    [][/\ (broker'.cash # broker.cash \/ broker'.trades # broker.trades) =>
             last'.op = "fill_order"
       /\ last'.op = "submit_order" =>
             /\ broker' = [broker EXCEPT !.orders = broker'.orders]
             /\ IsPrefix(broker.orders, broker'.orders)
       /\ last'.op \in {"get_cash", "get_total_commission", "get_trade_count"} =>
             broker' = broker
       /\ last'.op = "get_cash" => last'.args = <<broker.cash>>
       /\ last'.op = "get_total_commission" =>
             last'.args = <<CommissionOfTrades(broker.trades)>>
       /\ last'.op = "get_trade_count" => last'.args = <<Len(broker.trades)>>]_vars

\* the total commission of two trades was read, and it is what the two
\* trades were charged
C30_Witness ==
    /\ last.op = "get_total_commission"
    /\ Len(broker.trades) = 2
    /\ last.args[1] = broker.trades[1].commission + broker.trades[2].commission
    /\ last.args[1] > 0

\* C31: when a bar's portfolio value is recorded, no order in the broker's
\* history is PENDING; the histories of orders and trades grow only in the
\* step that processes the bar's signal, each by at most one entry.
C31_NoPendingAcrossBars ==
    /\ [](run.pc = "record" =>
            \A i \in 1..Len(broker.orders) : broker.orders[i].status # "PENDING")
    /\ [][/\ Len(broker'.orders) > Len(broker.orders) =>
                (run.pc = "process" /\ Len(broker'.orders) = Len(broker.orders) + 1)
          /\ Len(broker'.trades) > Len(broker.trades) =>
                (run.pc = "process" /\ Len(broker'.trades) = Len(broker.trades) + 1)]_vars

\* the second bar of a run is about to be recorded, and each of the two bars
\* created an order that is filled
C31_Witness ==
    /\ run.pc = "record" /\ run.idx = 1
    /\ twin.active
    /\ Len(broker.orders) = 2 /\ Len(broker.trades) = 2
    /\ \A i \in 1..2 : broker.orders[i].status = "FILLED"

\* sum of the quantities of the trades of symbol, BUY trades counted
\* positive and SELL trades negative
RECURSIVE NetTraded(_, _)
NetTraded(trades, symbol) ==
    IF trades = <<>> THEN 0
    ELSE LET t == trades[Len(trades)]
             rest == NetTraded(SubSeq(trades, 1, Len(trades) - 1), symbol)
         IN  IF t.symbol # symbol THEN rest
             ELSE IF t.side = "BUY" THEN rest + t.quantity
             ELSE rest - t.quantity

\* C32: in every state between the steps of a run, for each symbol the
\* quantity the engine holds equals the sum of the quantities of the
\* broker's BUY trades of the symbol minus that of its SELL trades.
C32_LedgerMatchesTrades ==
    \A symbol \in Symbols :
        Held(engine.positions, symbol) = NetTraded(broker.trades, symbol)

\* a holding was bought and then sold in part: two trades, and the rest held
C32_Witness ==
    /\ Len(broker.trades) = 2
    /\ broker.trades[1].side = "BUY" /\ broker.trades[2].side = "SELL"
    /\ broker.trades[1].symbol = broker.trades[2].symbol
    /\ Held(engine.positions, broker.trades[1].symbol) = 5
    /\ NetTraded(broker.trades, broker.trades[1].symbol) = 5

\* C33: when a bar's portfolio value is recorded, every position with
\* quantity > 0 has current_price equal to that bar's close, whatever its
\* symbol.
C33_AllPositionsMarked ==
    run.pc = "record" =>
        \A symbol \in DOMAIN engine.positions :
            engine.positions[symbol].quantity > 0 =>
                engine.positions[symbol].current_price = Slipped(broker, run.bar.close)

\* The same statement for the position of the symbol passed to run.
C33_RunSymbolMarked ==
    (run.pc = "record" /\ run.symbol \in DOMAIN engine.positions) =>
        engine.positions[run.symbol].current_price = Slipped(broker, run.bar.close)

\* cash + market value of the positions of an engine and its broker, in
\* money units
ValueOf(self, brk) == brk.cash + brk.rate_den * HoldingsValue(self.positions)

\* what the step that processes a signal takes from the portfolio value, by
\* the claim: nothing if no trade was made, else the trade's commission, the
\* slippage quantity * close * slippage and, for a SELL, the stamp tax
CostOfSignal(brk, trade, close) ==
    IF trade = NoTrade THEN 0
    ELSE trade.commission
         + trade.quantity * close * brk.slippage * brk.rate_den
         + (IF trade.side = "SELL"
            THEN trade.quantity * trade.price * brk.stamp_tax ELSE 0)

\* C34: the step that processes a bar's signal never raises the portfolio
\* value: a dropped signal leaves it unchanged, a BUY fill lowers it by
\* commission + quantity * close * slippage, a SELL fill by that plus the
\* stamp tax.
C34_SignalCostsExactly ==
    [][(run.pc = "process" /\ last'.op # "run") =>
          /\ ValueOf(engine', broker') = ValueOf(engine, broker)
                                         - CostOfSignal(broker, last'.trade, run.bar.close)
          /\ ValueOf(engine', broker') <= ValueOf(engine, broker)]_vars

\* The same statement for the signals whose symbol is the one passed to run,
\* on an engine that holds no other symbol.
C34_RunSymbolSignalCostsExactly ==
    [][(run.pc = "process" /\ last'.op # "run" /\ twin.active
        /\ (run.signal # NoSignal => run.signal.symbol = run.symbol)
        /\ DOMAIN engine.positions \subseteq {run.symbol}) =>
          /\ ValueOf(engine', broker') = ValueOf(engine, broker)
                                         - CostOfSignal(broker, last'.trade, run.bar.close)
          /\ ValueOf(engine', broker') <= ValueOf(engine, broker)]_vars

\* C35: the result of every run, also of one that begins on an engine that
\* ran before and was not reset, holds one portfolio value per bar of that
\* run, and only the orders and trades of that run: never more than one
\* order and one trade per bar; and the run began with initial_capital in
\* cash and no positions.
C35_RunSelfContained ==
    [][run.pc = "result" =>
          /\ Len(result'.portfolio_values) = run.n
          /\ Len(result'.dates) = run.n
          /\ Len(result'.orders) <= run.n
          /\ Len(result'.trades) <= run.n]_vars
    /\ [][(run.pc = "idle" /\ run'.pc = "mark") =>
          /\ broker.cash = Money(broker, engine.initial_capital)
          /\ engine.positions = <<>>]_vars

\* The same statement for the runs that begin on a newly built or reset
\* engine.
C35_FirstRunSelfContained ==
    [][(run.pc = "result" /\ twin.active) =>
          /\ Len(result'.portfolio_values) = run.n
          /\ Len(result'.dates) = run.n
          /\ Len(result'.orders) <= run.n
          /\ Len(result'.trades) <= run.n]_vars
    /\ [][(run.pc = "idle" /\ run'.pc = "mark" /\ twin'.active) =>
          /\ broker.cash = Money(broker, engine.initial_capital)
          /\ engine.positions = <<>>]_vars

\* C36: for every completed run, the result's total_return property,
\* (final_capital - initial_capital) / initial_capital, equals its
\* metrics['total_return'], (V_last - V_first) / V_first.
C36_TotalReturnsAgree ==
    (run.pc = "idle" /\ last.op = "_generate_result") =>
        /\ BacktestResult_total_return(result).raised = "none"
        /\ BacktestResult_total_return(result).value = result.metrics.total_return

\* The same statement for the runs on a newly built or reset engine whose
\* first bar fills no trade.
C36_AgreeWithoutFirstBarTrade ==
    (run.pc = "idle" /\ last.op = "_generate_result" /\ twin.active
     /\ result.portfolio_values[1] = result.initial_capital) =>
        /\ BacktestResult_total_return(result).raised = "none"
        /\ BacktestResult_total_return(result).value = result.metrics.total_return

====
